---- MODULE Spec2Model ----
(***************************************************************************)
(* State-machine model of the simple-agent turn-taking engine:             *)
(*   - Agent::run / Agent::run_loop (batch mode) and Agent::stream         *)
(*     (streaming mode), src/src/agent/agent_loop.rs                       *)
(*   - ToolExecutor::execute / execute_all, src/src/tool/executor.rs       *)
(*   - ToolRegistry, src/src/tool/registry.rs                              *)
(*   - Session / Message, src/src/session/*.rs                             *)
(* One step of the model is one lock-protected critical section or one     *)
(* awaited call of the code.                                               *)
(***************************************************************************)
EXTENDS Integers, Sequences, FiniteSets, Bags, TLC

(***************************************************************************)
(* Bounds of the model.                                                    *)
(***************************************************************************)
\* AgentConfig.max_steps is drawn from 0..MaxSteps.
MaxSteps == 2
\* The model adapter returns at most MaxBlocks content blocks in total over
\* the complete() calls of one batch run.
MaxBlocks == 3
\* The model adapter yields at most MaxEvents stream items in total over the
\* stream() calls of one streaming run.
MaxEvents == 4
\* execute_all is called directly with at most MaxCalls content blocks.
MaxCalls == 2
\* One MCPClient creates at most MaxRequests tools/list and tools/call requests.
MaxRequests == 3
\* A child process writes at most MaxLines lines to its output.
MaxLines == 2
\* The most lines the child's output has when read_json_response is taken by
\* itself.
MaxOutput == 4

(***************************************************************************)
(* Values.                                                                 *)
(***************************************************************************)
\* Option::None of the code, for string-valued options.
None == "None"
SomeTrue == "Some(true)"

\* serde_json::Value: json!({}) and one non-empty object.
EmptyArgs == [kind |-> "object", fields |-> {}]
ArgsQ == [kind |-> "object", fields |-> {<<"q", "1">>}]
\* serde_json::from_str(s).unwrap_or(json!({})) on the argument texts of the
\* model: two complete JSON documents and one incomplete fragment.
FragEmpty == "{}"
FragQ == "{\"q\":1}"
FragPartial == "{\"q\":"
from_str_or_empty(s) ==
    CASE s = FragQ -> ArgsQ
      [] s = FragEmpty -> EmptyArgs
      [] OTHER -> EmptyArgs

ToolNames == {"t1", "t2"}
CallIds == {"c1", "c2"}

\* MessageContent::Text
Text(t) == [type |-> "text", text |-> t]
\* MessageContent::ToolCall
ToolCall(id, name, arguments) ==
    [type |-> "tool_call", id |-> id, name |-> name, arguments |-> arguments]
\* MessageContent::ToolResult
ToolResultBlock(tool_call_id, result, is_error) ==
    [type |-> "tool_result", tool_call_id |-> tool_call_id,
     result |-> result, is_error |-> is_error]

IsToolCall(c) == c.type = "tool_call"

\* Message::new_user / new_assistant / new_tool_result (ids and timestamps
\* are fresh values no code path reads; they are left out).
new_user(text) == [role |-> "User", content |-> <<Text(text)>>]
new_assistant(content) == [role |-> "Assistant", content |-> content]
new_tool_result(results) == [role |-> "Tool", content |-> results]

\* Session::add_message
add_message(log, m) == Append(log, m)

(***************************************************************************)
(* Sequence helpers.                                                       *)
(***************************************************************************)
RECURSIVE SelectCalls(_)
\* response.content.iter().filter(|c| matches!(c, ToolCall{..})).cloned().collect()
SelectCalls(s) ==
    IF s = <<>> THEN <<>>
    ELSE IF IsToolCall(Head(s)) THEN <<Head(s)>> \o SelectCalls(Tail(s))
    ELSE SelectCalls(Tail(s))

\* Vec::remove(pos)
RemoveAt(s, pos) == SubSeq(s, 1, pos - 1) \o SubSeq(s, pos + 1, Len(s))

\* Sequences over S of length at most n.
SeqsUpTo(S, n) == UNION {[1..k -> S] : k \in 0..n}

(***************************************************************************)
(* Tools.  A tool handle (DynTool) is a record of its name and of its      *)
(* implementation; the implementation fixes what execute returns.          *)
(***************************************************************************)
ToolImpls == {"ok", "flagged", "invalid", "failing"}
Tool(name, impl) == [name |-> name, impl |-> impl]
AllTools == {Tool(n, i) : n \in ToolNames, i \in ToolImpls}
NoTool == [name |-> None, impl |-> None]

\* ToolResult::ok(output)
ToolResultOk(output) == [tag |-> "Ok", output |-> output, error |-> None, msg |-> ""]
\* ToolResult::error(error): the output is the empty string.
ToolResultError(error) == [tag |-> "Ok", output |-> "", error |-> error, msg |-> ""]
\* Err(ToolError::...) with its Display text (thiserror #[error(...)]).
ToolErr(display) == [tag |-> "Err", output |-> "", error |-> None, msg |-> display]
InvalidArguments(reason) == ToolErr("Invalid arguments: " \o reason)
ExecutionFailed(reason) == ToolErr("Execution failed: " \o reason)

\* Tool::execute(args) of the tool implementations of the model.
ToolExecute(tool, args) ==
    CASE tool.impl = "ok"      -> ToolResultOk("out:" \o tool.name)
      [] tool.impl = "flagged" -> ToolResultError("soft failure")
      [] tool.impl = "invalid" -> InvalidArguments("bad args")
      [] tool.impl = "mcp"     -> ExecutionFailed("Connection error: Not connected")
      [] OTHER                 -> ExecutionFailed("boom")

\* ToolDefinition
ToolDefinition(name, description, input_schema) ==
    [name |-> name, description |-> description, input_schema |-> input_schema]

\* MCPToolAdapter::new(client, definition): a handle whose name, description
\* and schema are the ones of the definition it was made from.  Its execute
\* maps every MCPError of call_tool to ExecutionFailed; the client of the
\* adapters of this model is not connected.
MCPToolAdapter(definition) ==
    [name |-> definition.name, impl |-> "mcp", definition |-> definition]

\* Mutant: the schema is replaced by the empty schema.
to_definitionMutant(tool) ==
    ToolDefinition(tool.name, "impl:" \o tool.impl, "{}")

\* Tool::to_definition: name(), description() and parameters_schema() of the
\* tool; those of an MCPToolAdapter are the fields of its definition.
to_definition(tool) ==
    IF tool.impl = "mcp"
    THEN ToolDefinition(tool.definition.name, tool.definition.description,
                        tool.definition.input_schema)
    ELSE ToolDefinition(tool.name, "impl:" \o tool.impl, "schema:" \o tool.impl)

(***************************************************************************)
(* ToolRegistry: HashMap<String, DynTool>, a function from every name to   *)
(* its handle, NoTool for a name that is not a key.                        *)
(***************************************************************************)
EmptyRegistry == [n \in ToolNames |-> NoTool]
\* Mutant: a name that is bound keeps its binding.
registerMutant(reg, tool) ==
    IF reg[tool.name].name # None THEN reg ELSE [reg EXCEPT ![tool.name] = tool]
\* ToolRegistry::register
register(reg, tool) == [reg EXCEPT ![tool.name] = tool]
\* Mutant: the entry stays in the map.
unregisterMutant(reg, name) == reg
\* ToolRegistry::unregister
unregister(reg, name) == [reg EXCEPT ![name] = NoTool]
\* ToolRegistry::get; a name outside the model's names is never a key.
get(reg, name) == IF name \in DOMAIN reg THEN reg[name] ELSE NoTool
\* ToolRegistry::len
len(reg) == Cardinality({n \in DOMAIN reg : reg[n] # NoTool})
\* ToolRegistry::to_tool_definitions: a Vec in the map's iteration order,
\* which is unspecified; modelled as the bag of its elements.
to_tool_definitions(reg) ==
    SetToBag({to_definition(reg[n]) : n \in {m \in DOMAIN reg : reg[m] # NoTool}})

(***************************************************************************)
(* ToolExecutor::execute, the parts that are pure.                         *)
(***************************************************************************)
\* The result for a content block that is no ToolCall (executor.rs 56-62).
InvalidCallResult ==
    ToolResultBlock("", "Invalid tool call content", SomeTrue)
\* Mutant: the message names the call's id instead of the tool's name.
NotFoundResultMutant(id, name) ==
    ToolResultBlock(id, "Tool not found: " \o id, SomeTrue)
\* The result for a name that is not registered (executor.rs 68-74).
NotFoundResult(id, name) ==
    ToolResultBlock(id, "Tool not found: " \o name, SomeTrue)
\* The conversion of the tool's return value (executor.rs 78-89).
\* Mutant: the tool's own error field is not propagated.
IsErrorOfMutant(r) == None
IsErrorOf(r) == IF r.error # None THEN SomeTrue ELSE None
ConvertResult(id, r) ==
    IF r.tag = "Ok"
    THEN ToolResultBlock(id, r.output, IsErrorOf(r))
    ELSE ToolResultBlock(id, r.msg, SomeTrue)

(***************************************************************************)
(* Inputs of the model.                                                    *)
(***************************************************************************)
UserInputs == {"hello"}
\* Content blocks a complete() response is built from.
LLMBlocks ==
    {Text("hi")} \cup {ToolCall(id, n, EmptyArgs) : id \in CallIds, n \in ToolNames}
\* Items an LLMStream yields as Ok(LLMEvent).
LLMEvents ==
    {[type |-> "TextDelta", text |-> "hi"]}
    \cup {[type |-> "ToolCallStart", id |-> id, name |-> n] :
              id \in CallIds, n \in ToolNames}
    \cup {[type |-> "ToolCallDelta", id |-> id, arguments |-> FragQ] : id \in CallIds}
    \cup {[type |-> "ToolCallEnd", id |-> id] : id \in CallIds}
    \cup {[type |-> "Finish", reason |-> "Stop"]}
    \cup {[type |-> "Error", error |-> "upstream"]}
\* Tools registered with the agent before a run starts.
AgentTools == {Tool("t1", "ok"), Tool("t2", "failing"), Tool("t2", "invalid")}
\* Every registry made of them: at most one handle per name, under its name.
AgentRegistries ==
    {r \in [ToolNames -> AgentTools \cup {NoTool}] :
        \A n \in ToolNames : r[n] = NoTool \/ r[n].name = n}
\* Definitions a remote tools/list call has surfaced.
McpDefinitions == {ToolDefinition("t2", "remote t2", "remote schema")}
\* Tools registered and unregistered while a run is in progress: the
\* adapters of the remote definitions (adapt_mcp_tools).
TurnTools == {MCPToolAdapter(d) : d \in McpDefinitions}
\* Content blocks execute_all is called with directly.
ExecBlocks ==
    {Text("hi")} \cup {ToolCall(id, n, EmptyArgs) : id \in CallIds, n \in ToolNames}

(***************************************************************************)
(* State.                                                                  *)
(***************************************************************************)
VARIABLES
    max_steps,   \* AgentConfig.max_steps
    mode,        \* "none", "batch" (Agent::run), "stream" (Agent::stream),
                 \* "exec" (ToolExecutor::execute_all called directly)
    pc,          \* position of the task in the code
    step,        \* run_loop / stream: let mut step
    messages,    \* Session.messages
    status,      \* Session.status
    registry,    \* ToolRegistry.tools
    input,       \* the LLMInput of the current turn: messages and tools
    response,    \* run_loop: response.content
    content,     \* stream: let mut content
    tool_calls,  \* run_loop / stream: tool_calls; execute_all: calls
    ea_i,        \* execute_all: index of the call the for loop is at
    tool,        \* execute: the handle cloned out of the registry
    results,     \* execute_all: let mut results
    invoked,     \* execute_all: the tool.execute calls made, as <<index, handle>>
    events,      \* the AgentEvents the stream has yielded
    ret,         \* what Agent::run returned
    llm_calls,   \* number of complete() / stream() calls made
    llm_used,    \* blocks (batch) or stream items (streaming) produced so far
    llm_failed   \* whether the model adapter has returned an Err

\* The state of the agent, its session, registry and executor.
agentVars == <<max_steps, mode, pc, step, messages, status, registry, input, response,
               content, tool_calls, ea_i, tool, results, invoked, events, ret,
               llm_calls, llm_used, llm_failed>>

\* MCPClient (src/src/mcp/client.rs) and, for the process transport, the
\* child process and the two pipes to it.
VARIABLES
    transport,      \* MCPConfig.transport: "stdio", "http" or "sse"
    process,        \* MCPClient.process: Option<Child>
    stdin,          \* MCPClient.stdin: Option<ChildStdin>
    stdout_reader,  \* MCPClient.stdout_reader
    http_client,    \* MCPClient.http_client
    sse_url,        \* MCPClient.sse_url
    message_id,     \* MCPClient.message_id (AtomicU64)
    m_pc,           \* position of the task that uses the client (&mut self)
    m_ret,          \* the operation that returned last and what it returned
    sent,           \* the requests written to the pipe or posted, since the
                    \* last connect that got as far as sending
    consumed,       \* responses connect has received for its initialize request
    connected,      \* whether connect has returned Ok since the last disconnect
    child,          \* "none", "running", "exited"
    child_kind,     \* "exits": may exit at any time; "serves": runs until its
                    \* input is closed or it is killed
    in_open,        \* the read end of the child's stdin pipe is open
    out_open,       \* the write end of the child's stdout pipe is open
    out_left        \* lines the child writes before it falls silent

mcpVars == <<transport, process, stdin, stdout_reader, http_client, sse_url,
             message_id, m_pc, m_ret, sent, consumed, connected, child, child_kind,
             in_open, out_open, out_left>>

\* The child's output as read_json_response meets it (client.rs 348-395),
\* taken by itself: the lines the child writes, and a buffered reader that
\* lives as long as the client does.
VARIABLES
    out_lines,      \* the lines of the child's output, in order
    out_pos,        \* how many of them the BufReader has handed out
    read_pc,        \* "idle" or "loop": inside read_json_response or not
    read_from,      \* out_pos when the call in progress (or the last) began
    read_ret        \* what the last call returned, a Result<Value, MCPError>

readVars == <<out_lines, out_pos, read_pc, read_from, read_ret>>

\* MCPToolAdapter (src/src/mcp/adapter.rs): tasks that execute adapters which
\* share one Arc<Mutex<MCPClient>>.
VARIABLES
    client_lock,    \* the task that holds the guard of the client's Mutex, or None
    a_pc,           \* per task: "idle", "locked", "sent", "done"
    a_call,         \* per task: the adapter's name and the args of its execute
    a_out,          \* per task: what call_tool returned
    a_ret,          \* per task: what execute returned
    a_calls         \* the calls of call_tool made so far: task, name, arguments

adapterVars == <<client_lock, a_pc, a_call, a_out, a_ret, a_calls>>

\* ToolRegistry (src/src/tool/registry.rs) used by itself.
VARIABLES
    reg_ops,        \* the last two operations on the registry: what was called,
                    \* what it returned, the registry before and after
    reg_names       \* the names registered and not unregistered since

registryVars == <<reg_ops, reg_names>>

\* PermissionManager (src/src/permission/manager.rs).
VARIABLES
    rules,          \* PermissionManager.rules
    perm_ctx,       \* the PermissionContext of the last check since the last
                    \* add_rule
    perm_result     \* what that check returned

permVars == <<rules, perm_ctx, perm_result>>

\* The two tokio::sync::Mutex guards of the agent.
VARIABLES
    registry_guard, \* the task that holds the guard of Arc<Mutex<ToolRegistry>>
    session_guard   \* the task that holds the guard of Arc<Mutex<Session>>

guardVars == <<registry_guard, session_guard>>

\* Two batch runs (Agent::run) of one agent, on its one Session.
VARIABLES
    p_pc,           \* where each run is
    p_step,         \* the step counter of each run's run_loop
    p_response,     \* the content of the response each run got last
    p_results,      \* what execute_all returned to each run
    p_ret           \* the kind of value each run returned

sharedVars == <<p_pc, p_step, p_response, p_results, p_ret>>

\* The items the LLMStream of a streaming run has yielded as Ok, in order.
VARIABLES recv

\* The requests a client has made on the process transport, in order, each
\* with what read_json_response returned to it.
VARIABLES requests

\* The log of the Session the agent was made with.
VARIABLES prior

\* The variables of the further specifications.
moreVars == <<sharedVars, recv, requests, prior>>

\* What the agent and the MCP client's operations leave alone.
otherVars == <<readVars, adapterVars, registryVars, permVars, guardVars, moreVars>>

vars == <<agentVars, mcpVars, otherVars>>

NoInput == [messages |-> <<>>, tools |-> EmptyBag]
Pending == [kind |-> "Pending", messages |-> <<>>]
\* Ok(messages) of Result<Vec<Message>, AgentError>
RetOk(msgs) == [kind |-> "Ok", messages |-> msgs]
\* Err(AgentError::LLMError(e)) through the ? operator and #[from]
RetLLMError == [kind |-> "LLMError", messages |-> <<>>]

(***************************************************************************)
(* serde_json::Value and JSON text, as far as the client looks into them.   *)
(***************************************************************************)
\* Option::None of Value::get.
JAbsent == [kind |-> "absent"]
JNull == [kind |-> "null"]
JString(s) == [kind |-> "string", s |-> s]
JArray(items) == [kind |-> "array", items |-> items]
\* A JSON-RPC response object with its error and result members.
ResponseObject(error, result) == [kind |-> "object", error |-> error, result |-> result]
\* Value::get(key): a member of an object, None for anything else.
Get(v, key) == IF v.kind = "object" /\ key \in DOMAIN v THEN v[key] ELSE JAbsent

\* A line of text that is a JSON document, in one of its spellings.
JsonText(v, layout) == [text |-> "json", of |-> v, layout |-> layout]
\* A line of text that is no JSON document: "empty", "spaces" (whitespace
\* only), "log" (a diagnostic message), "bad_utf8" (bytes that are no UTF-8).
NoiseText(kind) == [text |-> kind, of |-> JAbsent, layout |-> "none"]
NoiseTexts == {NoiseText(k) : k \in {"empty", "spaces", "log", "bad_utf8"}}
\* str::trim(): whitespace at both ends goes, the rest stays.
trim(t) == IF t.text = "spaces" THEN NoiseText("empty") ELSE t
\* serde_json::from_str::<Value>(text).
ParseErr == [tag |-> "Err", value |-> JAbsent]
from_str(t) == IF t.text = "json" THEN [tag |-> "Ok", value |-> t.of] ELSE ParseErr
\* serde_json::to_string(&value): the compact spelling.
to_string(v) == JsonText(v, "compact")

\* The closure given to spawn_blocking, lines 358-384, on the line that
\* read_line yields: Err when read_line fails, Ok(None) for an empty line or
\* one that is no JSON, Ok(Some(text)) with the re-serialised JSON otherwise.
ReadClosure(line) ==
    IF line.text = "bad_utf8"
    THEN [tag |-> "Err", some |-> FALSE, text |-> NoiseText("empty")]
    ELSE IF trim(line).text = "empty" \/ from_str(trim(line)).tag = "Err"
    THEN [tag |-> "Ok", some |-> FALSE, text |-> NoiseText("empty")]
    ELSE [tag |-> "Ok", some |-> TRUE, text |-> to_string(from_str(trim(line)).value)]

\* A JSON object that describes a tool, with its name and description members.
ToolInfoObject(name, description) ==
    [kind |-> "object", name |-> name, description |-> description]
\* The result member of a response: an object with or without tools.
ResultObject(tools) == [kind |-> "object", tools |-> tools]
\* The error member of a response, when it is an object.
ErrorObject == [kind |-> "object", code |-> -32000, message |-> "failed"]

\* What an operation returns besides Ok or the kind of its error: a message,
\* a JSON text, a list of tool infos.
Detail(kind, s, text, items) == [kind |-> kind, s |-> s, text |-> text, items |-> items]
NoDetail == Detail("none", "", NoiseText("empty"), <<>>)
Message(s) == Detail("message", s, NoiseText("empty"), <<>>)
\* value.to_string(): the compact JSON text of a value, as a String.
TextOf(v) == Detail("text", "", to_string(v), <<>>)
ToolInfos(items) == Detail("tools", "", NoiseText("empty"), items)
Outcome(result, detail) == [result |-> result, detail |-> detail]

\* MCToolInfo (lines 595-601) deserialised from a JSON value: name and
\* description are required strings, input_schema has a default.
IsToolInfo(v) ==
    /\ v.kind = "object"
    /\ Get(v, "name").kind = "string"
    /\ Get(v, "description").kind = "string"
MCToolInfo(v) ==
    [name |-> v.name.s, description |-> v.description.s, input_schema |-> JNull]
\* serde_json::from_value::<Vec<MCToolInfo>>(v), lines 464-467.
VecToolInfoFromValue(v) ==
    IF v.kind = "array" /\ \A i \in 1..Len(v.items) : IsToolInfo(v.items[i])
    THEN Outcome("Ok", ToolInfos([i \in 1..Len(v.items) |-> MCToolInfo(v.items[i])]))
    ELSE Outcome("ProtocolError", Message("invalid type"))
\* serde_json::from_value::<ToolsListResponse>(v), lines 582 and 603-607: the
\* tools member is required.
ToolsListResponseFromValue(v) ==
    IF v.kind # "object" THEN Outcome("ProtocolError", Message("invalid type"))
    ELSE IF Get(v, "tools").kind = "absent"
    THEN Outcome("ProtocolError", Message("missing field tools"))
    ELSE VecToolInfoFromValue(Get(v, "tools"))

\* list_tools, process transport, lines 453-469, on the response it read.
ListToolsStdioResult(rsp) ==
    IF Get(rsp, "error").kind # "absent"
    THEN Outcome("ExecutionError", TextOf(Get(rsp, "error")))
    ELSE IF Get(rsp, "result").kind = "absent"
    THEN Outcome("ProtocolError", Message("No result in response"))
    ELSE LET tools == Get(Get(rsp, "result"), "tools") IN
         VecToolInfoFromValue(IF tools.kind = "absent" THEN JArray(<<>>) ELSE tools)

\* extract_tool_result, lines 587-591.
extract_tool_result(rsp) == Outcome("Ok", TextOf(rsp))

\* call_tool, process transport, lines 503-515, on the response it read.
CallToolStdioResult(rsp) ==
    IF Get(rsp, "error").kind # "absent"
    THEN Outcome("ExecutionError", TextOf(Get(rsp, "error")))
    ELSE IF Get(rsp, "result").kind = "absent"
    THEN Outcome("ProtocolError", Message("No result in response"))
    ELSE extract_tool_result(Get(rsp, "result"))

\* What the server answers to a POST: no answer at all, or a status and a body.
HttpReply(st, body) == [status |-> st, body |-> body]
NoReply == HttpReply("none", NoiseText("empty"))

\* Mutant: a result member is taken before the error member is looked at.
call_json_rpc_methodMutant(reply, T) ==
    IF reply.status = "none" THEN Outcome("HttpError", Message("error sending request"))
    ELSE IF reply.status # "success" THEN Outcome("HttpError", Message("HTTP error"))
    ELSE IF from_str(reply.body).tag = "Err"
    THEN Outcome("ProtocolError", Message("error decoding response body"))
    ELSE LET response_value == from_str(reply.body).value IN
         IF Get(response_value, "result").kind # "absent"
         THEN IF T = "tools"
              THEN ToolsListResponseFromValue(Get(response_value, "result"))
              ELSE Outcome("Ok", [kind |-> "value", s |-> "", text |-> NoiseText("empty"),
                                  items |-> <<Get(response_value, "result")>>])
         ELSE IF Get(response_value, "error").kind # "absent"
         THEN Outcome("ExecutionError", TextOf(Get(response_value, "error")))
         ELSE Outcome("ProtocolError", Message("No result in response"))

\* call_json_rpc_method, lines 549-584, on the reply to its POST, for the
\* type T it deserialises the result into: "tools" for ToolsListResponse,
\* "value" for Value.
call_json_rpc_method(reply, T) ==
    IF reply.status = "none" THEN Outcome("HttpError", Message("error sending request"))
    ELSE IF reply.status # "success" THEN Outcome("HttpError", Message("HTTP error"))
    ELSE IF from_str(reply.body).tag = "Err"
    THEN Outcome("ProtocolError", Message("error decoding response body"))
    ELSE LET response_value == from_str(reply.body).value IN
         IF Get(response_value, "error").kind # "absent"
         THEN Outcome("ExecutionError", TextOf(Get(response_value, "error")))
         ELSE IF Get(response_value, "result").kind = "absent"
         THEN Outcome("ProtocolError", Message("No result in response"))
         ELSE IF T = "tools"
         THEN ToolsListResponseFromValue(Get(response_value, "result"))
         ELSE Outcome("Ok", [kind |-> "value", s |-> "", text |-> NoiseText("empty"),
                             items |-> <<Get(response_value, "result")>>])

\* list_tools over HTTP or SSE, lines 471-478.
ListToolsHttpResult(reply) ==
    LET r == call_json_rpc_method(reply, "tools") IN
    IF r.result = "Ok" THEN Outcome("Ok", ToolInfos(r.detail.items)) ELSE r

\* call_tool over HTTP or SSE, lines 517-524.
CallToolHttpResult(reply) ==
    LET r == call_json_rpc_method(reply, "value") IN
    IF r.result = "Ok" THEN extract_tool_result(r.detail.items[1]) ELSE r

\* Option<T> of the client's handles.
Some == "Some"
Transports == {"stdio", "http", "sse"}
ChildKinds == {"exits", "serves"}
\* What the client's last operation returned: the operation, Ok or the kind
\* of its MCPError, what came with it, and the answer it was computed from.
NoReturn == [op |-> "none", result |-> "none", detail |-> NoDetail, answer |-> NoReply]

\* MCPClientBuilder::build (client.rs 146-154): no handle, the counter at 0.
McpBuilt ==
    /\ process = None
    /\ stdin = None
    /\ stdout_reader = None
    /\ http_client = None
    /\ sse_url = None
    /\ message_id = 0
    /\ m_pc = "idle"
    /\ m_ret = NoReturn
    /\ sent = <<>>
    /\ consumed = 0
    /\ connected = FALSE
    /\ child = "none"
    /\ in_open = FALSE
    /\ out_open = FALSE
    /\ out_left = 0

\* An MCP client that is built and never used.
McpUnused ==
    /\ McpBuilt
    /\ transport = "stdio"
    /\ child_kind = "exits"

\* Session::new: an empty log, status Idle; no task has started.
AgentIdle ==
    /\ mode = "none"
    /\ pc = "idle"
    /\ step = 0
    /\ messages = <<>>
    /\ status = "Idle"
    /\ input = NoInput
    /\ response = <<>>
    /\ content = <<>>
    /\ tool_calls = <<>>
    /\ ea_i = 0
    /\ tool = NoTool
    /\ results = <<>>
    /\ invoked = <<>>
    /\ events = <<>>
    /\ ret = Pending
    /\ llm_calls = 0
    /\ llm_used = 0
    /\ llm_failed = FALSE

\* No call of read_json_response has returned.
ReadPending == [tag |-> "Pending", value |-> [kind |-> "absent"]]

\* No output to read and no call of read_json_response.
ReadUnused ==
    /\ out_lines = <<>>
    /\ out_pos = 0
    /\ read_pc = "idle"
    /\ read_from = 0
    /\ read_ret = ReadPending

\* The tasks that execute adapters, and the names of the adapters.
Runs == {"r1", "r2"}
AdapterNames == {"t2", "t3"}
NoCall == [name |-> "", args |-> EmptyArgs]
NoOutcome == [result |-> "none", detail |-> [kind |-> "none"]]
NoAdapterReturn == [tag |-> "none"]

\* No task has executed an adapter.
AdaptersUnused ==
    /\ client_lock = None
    /\ a_pc = [t \in Runs |-> "idle"]
    /\ a_call = [t \in Runs |-> NoCall]
    /\ a_out = [t \in Runs |-> NoOutcome]
    /\ a_ret = [t \in Runs |-> NoAdapterReturn]
    /\ a_calls = <<>>

\* No operation on the registry has been recorded.
RegistryUnused ==
    /\ reg_ops = <<>>
    /\ reg_names = {}

\* PermissionManager::new, and no check made.
NoContext == [tool |-> <<>>, args |-> [kind |-> "absent"]]
PermissionsUnused ==
    /\ rules = <<>>
    /\ perm_ctx = NoContext
    /\ perm_result = None

\* Nobody holds a guard.
GuardsFree ==
    /\ registry_guard = None
    /\ session_guard = None

\* self.session.lock().await returns when no task holds the guard, and
\* the guard is dropped (drop(session), or the end of its block) before the
\* action ends.
WithSessionGuard ==
    /\ session_guard = None
    /\ session_guard' = None

\* registry.lock().await, and the guard dropped before the action ends.
WithRegistryGuard ==
    /\ registry_guard = None
    /\ registry_guard' = None

\* No run of the pair has started.
SharedUnused ==
    /\ p_pc = [r \in Runs |-> "idle"]
    /\ p_step = [r \in Runs |-> 0]
    /\ p_response = [r \in Runs |-> <<>>]
    /\ p_results = [r \in Runs |-> <<>>]
    /\ p_ret = [r \in Runs |-> "Pending"]

MoreUnused ==
    /\ SharedUnused
    /\ recv = <<>>
    /\ requests = <<>>
    /\ prior = <<>>

OthersUnused ==
    /\ ReadUnused
    /\ AdaptersUnused
    /\ RegistryUnused
    /\ PermissionsUnused
    /\ GuardsFree
    /\ MoreUnused

\* Session::new and Agent::new with a registry the caller has filled.
InitCommon ==
    /\ AgentIdle
    /\ McpUnused
    /\ OthersUnused

Init ==
    /\ InitCommon
    /\ max_steps \in 0..MaxSteps
    /\ registry \in AgentRegistries

\* Variable groups, for the UNCHANGED clauses.
sessionVars == <<messages, status>>
execVars == <<tool_calls, ea_i, tool, results, invoked>>
llmVars == <<llm_calls, llm_used, llm_failed>>

(***************************************************************************)
(* ToolExecutor::execute_all and ToolExecutor::execute.                    *)
(***************************************************************************)
\* Where the caller of execute_all goes on.
AfterExecuteAll(m) ==
    CASE m = "batch"  -> "b_save_tools"
      [] m = "stream" -> "s_emit"
      [] OTHER        -> "x_done"

\* execute_all, line 98: let mut results = Vec::new(); for call in calls.
StartExecuteAll(calls, m) ==
    /\ tool_calls' = calls
    /\ results' = <<>>
    /\ invoked' = <<>>
    /\ tool' = NoTool
    /\ ea_i' = 1
    /\ pc' = IF calls = <<>> THEN AfterExecuteAll(m) ELSE "x_lookup"

\* Mutant: the result is inserted at the front instead of pushed.
PushResultMutant(r) ==
    /\ results' = <<r>> \o results
    /\ ea_i' = ea_i + 1
    /\ pc' = IF ea_i + 1 > Len(tool_calls) THEN AfterExecuteAll(mode) ELSE "x_lookup"

\* execute_all, lines 100-105: results.push(result), then the next call or
\* the return.
PushResult(r) ==
    /\ results' = Append(results, r)
    /\ ea_i' = ea_i + 1
    /\ pc' = IF ea_i + 1 > Len(tool_calls) THEN AfterExecuteAll(mode) ELSE "x_lookup"

\* Mutant: the registry guard lives until execute returns.
ExecuteLookupMutant ==
    /\ registry_guard = None
    /\ pc = "x_lookup"
    /\ LET call == tool_calls[ea_i] IN
         IF ~IsToolCall(call)
         THEN PushResult(InvalidCallResult) /\ tool' = NoTool
         ELSE IF get(registry, call.name) = NoTool
         THEN PushResult(NotFoundResult(call.id, call.name)) /\ tool' = NoTool
         ELSE /\ tool' = get(registry, call.name)
              /\ pc' = "x_invoke"
              /\ UNCHANGED <<results, ea_i>>
    /\ registry_guard' = IF pc' = "x_invoke" THEN "agent" ELSE None
    /\ UNCHANGED <<mcpVars, readVars, adapterVars, registryVars, permVars, session_guard, moreVars,
                   max_steps, mode, step, sessionVars, registry, input, response, content,
                   tool_calls, invoked, events, ret, llmVars>>

\* execute, lines 50-76: the call is taken apart, the registry is locked and
\* the tool looked up by name; the guard is dropped before the tool runs.
ExecuteLookup ==
    /\ WithRegistryGuard
    /\ pc = "x_lookup"
    /\ LET call == tool_calls[ea_i] IN
         IF ~IsToolCall(call)
         THEN PushResult(InvalidCallResult) /\ tool' = NoTool
         ELSE IF get(registry, call.name) = NoTool
         THEN PushResult(NotFoundResult(call.id, call.name)) /\ tool' = NoTool
         ELSE /\ tool' = get(registry, call.name)
              /\ pc' = "x_invoke"
              /\ UNCHANGED <<results, ea_i>>
    /\ UNCHANGED <<mcpVars, otherVars, max_steps, mode, step, sessionVars, registry, input, response,
                   content, tool_calls, invoked, events, ret, llmVars>>

\* Mutant: an Err of the tool is propagated and ends the run.
ExecuteInvokeMutant ==
    /\ pc = "x_invoke"
    /\ LET call == tool_calls[ea_i]
           out == ToolExecute(tool, call.arguments) IN
         IF out.tag = "Err"
         THEN /\ ret' = [kind |-> "ToolError", messages |-> <<>>]
              /\ pc' = "done"
              /\ UNCHANGED <<results, ea_i>>
         ELSE /\ PushResult(ConvertResult(call.id, out))
              /\ UNCHANGED ret
    /\ invoked' = Append(invoked, <<ea_i, tool>>)
    /\ tool' = NoTool
    /\ UNCHANGED <<mcpVars, otherVars, max_steps, mode, step, sessionVars, registry, input, response,
                   content, tool_calls, events, llmVars>>

\* Mutant: the handle is taken from the registry again when the tool runs.
ExecuteInvokeAgain ==
    /\ pc = "x_invoke"
    /\ LET call == tool_calls[ea_i] IN
         IF get(registry, call.name) = NoTool
         THEN PushResult(NotFoundResult(call.id, call.name))
         ELSE PushResult(ConvertResult(call.id, ToolExecute(get(registry, call.name),
                                                            call.arguments)))
    /\ invoked' = Append(invoked, <<ea_i, tool>>)
    /\ tool' = NoTool
    /\ UNCHANGED <<mcpVars, otherVars, max_steps, mode, step, sessionVars, registry, input, response,
                   content, tool_calls, events, ret, llmVars>>

\* execute, lines 78-89: tool.execute(arguments).await and the conversion of
\* what it returns.
ExecuteInvoke ==
    /\ pc = "x_invoke"
    /\ LET call == tool_calls[ea_i] IN
         PushResult(ConvertResult(call.id, ToolExecute(tool, call.arguments)))
    /\ invoked' = Append(invoked, <<ea_i, tool>>)
    /\ tool' = NoTool
    /\ UNCHANGED <<mcpVars, otherVars, max_steps, mode, step, sessionVars, registry, input, response,
                   content, tool_calls, events, ret, llmVars>>

\* ToolExecutor::execute_all called by a task of its own.
ExecuteAll ==
    /\ pc = "idle"
    /\ mode' = "exec"
    /\ \E calls \in SeqsUpTo(ExecBlocks, MaxCalls) : StartExecuteAll(calls, "exec")
    /\ UNCHANGED <<mcpVars, otherVars, max_steps, step, sessionVars, registry, input, response, content,
                   events, ret, llmVars>>

\* ToolRegistry::register by another holder of the Arc<Mutex<ToolRegistry>>.
Register ==
    /\ WithRegistryGuard
    /\ \E t \in AllTools : registry' = register(registry, t)
    /\ UNCHANGED <<mcpVars, otherVars, max_steps, mode, pc, step, sessionVars, input, response, content,
                   execVars, events, ret, llmVars>>

\* ToolRegistry::register by another task while an agent run is in progress.
RegisterDuringRun ==
    /\ WithRegistryGuard
    /\ mode \in {"batch", "stream"}
    /\ pc # "done"
    /\ \E t \in TurnTools : registry' = register(registry, t)
    /\ registry' # registry
    /\ UNCHANGED <<mcpVars, otherVars, max_steps, mode, pc, step, sessionVars, input, response, content,
                   execVars, events, ret, llmVars>>

\* ToolRegistry::unregister by another task while an agent run is in progress.
UnregisterDuringRun ==
    /\ WithRegistryGuard
    /\ mode \in {"batch", "stream"}
    /\ pc # "done"
    /\ \E t \in TurnTools : registry' = unregister(registry, t.name)
    /\ registry' # registry
    /\ UNCHANGED <<mcpVars, otherVars, max_steps, mode, pc, step, sessionVars, input, response, content,
                   execVars, events, ret, llmVars>>

\* ToolRegistry::unregister by another holder of the Arc<Mutex<ToolRegistry>>.
Unregister ==
    /\ WithRegistryGuard
    /\ \E n \in ToolNames : registry' = unregister(registry, n)
    /\ UNCHANGED <<mcpVars, otherVars, max_steps, mode, pc, step, sessionVars, input, response, content,
                   execVars, events, ret, llmVars>>

(***************************************************************************)
(* Agent::run and Agent::run_loop (batch mode).                            *)
(***************************************************************************)
\* Mutant: the loop test is off by one.
StepsLeftMutant(s, m) == s <= m
\* run_loop, line 140, and stream, line 223: the loop test.
StepsLeft(s, m) == s < m

\* run, lines 123-126: the User message is appended, the status set Running.
Run ==
    /\ WithSessionGuard
    /\ pc = "idle"
    /\ \E text \in UserInputs : messages' = add_message(messages, new_user(text))
    /\ status' = "Running"
    /\ mode' = "batch"
    /\ pc' = "b_loop"
    /\ UNCHANGED <<mcpVars, otherVars, max_steps, step, registry, input, response, content, execVars,
                   events, ret, llmVars>>

\* run_loop, lines 140-145: the loop test, step += 1, the tool definitions.
GetToolDefinitions ==
    /\ WithRegistryGuard
    /\ pc = "b_loop"
    /\ StepsLeft(step, max_steps)
    /\ step' = step + 1
    /\ input' = [messages |-> <<>>, tools |-> to_tool_definitions(registry)]
    /\ pc' = "b_input"
    /\ UNCHANGED <<mcpVars, otherVars, max_steps, mode, sessionVars, registry, response, content,
                   execVars, events, ret, llmVars>>

\* run_loop, lines 148-157: the LLMInput is built from the session's log.
BuildInput ==
    /\ WithSessionGuard
    /\ pc = "b_input"
    /\ input' = [input EXCEPT !.messages = messages]
    /\ pc' = "b_complete"
    /\ UNCHANGED <<mcpVars, otherVars, max_steps, mode, step, sessionVars, registry, response, content,
                   execVars, events, ret, llmVars>>

\* run_loop, line 162: complete(input) returns Ok(response).
CompleteOk ==
    /\ pc = "b_complete"
    /\ \E r \in SeqsUpTo(LLMBlocks, MaxBlocks - llm_used) :
         /\ response' = r
         /\ llm_used' = llm_used + Len(r)
    /\ llm_calls' = llm_calls + 1
    /\ pc' = "b_append"
    /\ UNCHANGED <<mcpVars, otherVars, max_steps, mode, step, sessionVars, registry, input, content,
                   execVars, events, ret, llm_failed>>

\* Mutant: the Err of complete is swallowed and the loop goes on.
CompleteErrMutant ==
    /\ pc = "b_complete"
    /\ llm_calls' = llm_calls + 1
    /\ llm_failed' = TRUE
    /\ pc' = "b_loop"
    /\ UNCHANGED <<mcpVars, otherVars, max_steps, mode, step, sessionVars, registry, input, response,
                   content, execVars, events, ret, llm_used>>

\* Mutant: the log is set back to what it was before the run.
CompleteErrRollsBack ==
    /\ pc = "b_complete"
    /\ llm_calls' = llm_calls + 1
    /\ llm_failed' = TRUE
    /\ ret' = RetLLMError
    /\ pc' = "done"
    /\ messages' = prior
    /\ UNCHANGED <<mcpVars, otherVars, max_steps, mode, step, status, registry, input, response,
                   content, execVars, events, llm_used>>

\* run_loop, line 162, and run, line 128: complete(input) returns Err; the
\* two ? operators return it from run, which leaves the status as it is.
CompleteErr ==
    /\ pc = "b_complete"
    /\ llm_calls' = llm_calls + 1
    /\ llm_failed' = TRUE
    /\ ret' = RetLLMError
    /\ pc' = "done"
    /\ UNCHANGED <<mcpVars, otherVars, max_steps, mode, step, sessionVars, registry, input, response,
                   content, execVars, events, llm_used>>

\* Mutant: the loop does not break on a response without tool calls.
AppendAssistantMutant ==
    /\ WithSessionGuard
    /\ pc = "b_append"
    /\ messages' = add_message(messages, new_assistant(response))
    /\ response' = <<>>
    /\ StartExecuteAll(SelectCalls(response), mode)
    /\ UNCHANGED <<mcpVars, otherVars, max_steps, mode, step, status, registry, input, content, events,
                   ret, llmVars>>

\* run_loop, lines 165-199: the Assistant message is appended and the tool
\* calls are filtered out of the response; without any the loop breaks,
\* otherwise execute_all is called with them.
AppendAssistant ==
    /\ WithSessionGuard
    /\ pc = "b_append"
    /\ messages' = add_message(messages, new_assistant(response))
    /\ response' = <<>>
    /\ IF SelectCalls(response) = <<>>
       THEN /\ tool_calls' = <<>>
            /\ pc' = "b_return"
            /\ UNCHANGED <<results, invoked, tool, ea_i>>
       ELSE StartExecuteAll(SelectCalls(response), mode)
    /\ UNCHANGED <<mcpVars, otherVars, max_steps, mode, step, status, registry, input, content, events,
                   ret, llmVars>>

\* Mutant: one Tool message is appended per result.
SaveToolResultsMutant ==
    /\ WithSessionGuard
    /\ pc = "b_save_tools"
    /\ messages' = messages \o [i \in 1..Len(results) |-> new_tool_result(<<results[i]>>)]
    /\ pc' = "b_loop"
    /\ UNCHANGED <<mcpVars, otherVars, max_steps, mode, step, status, registry, input, response, content,
                   execVars, events, ret, llmVars>>

\* run_loop, lines 202-206: the Tool message with the results is appended.
\* (tool_calls and results keep their values until the next turn sets them.)
SaveToolResults ==
    /\ WithSessionGuard
    /\ pc = "b_save_tools"
    /\ messages' = add_message(messages, new_tool_result(results))
    /\ pc' = "b_loop"
    /\ UNCHANGED <<mcpVars, otherVars, max_steps, mode, step, status, registry, input, response, content,
                   execVars, events, ret, llmVars>>

\* Mutant: an exhausted step budget is reported as MaxStepsExceeded.
ReturnMessagesMutant ==
    /\ WithSessionGuard
    /\ \/ pc = "b_return"
       \/ pc = "b_loop" /\ ~StepsLeft(step, max_steps)
    /\ ret' = IF pc = "b_loop"
              THEN [kind |-> "MaxStepsExceeded", messages |-> <<>>]
              ELSE RetOk(messages)
    /\ pc' = "b_finish"
    /\ UNCHANGED <<mcpVars, otherVars, max_steps, mode, step, sessionVars, registry, input, response,
                   content, execVars, events, llmVars>>

\* run_loop, lines 209-210: after the loop (its test false, or the break)
\* the session's log is cloned as the result.
ReturnMessages ==
    /\ WithSessionGuard
    /\ \/ pc = "b_return"
       \/ pc = "b_loop" /\ ~StepsLeft(step, max_steps)
    /\ ret' = RetOk(messages)
    /\ pc' = "b_finish"
    /\ UNCHANGED <<mcpVars, otherVars, max_steps, mode, step, sessionVars, registry, input, response,
                   content, execVars, events, llmVars>>

\* run, lines 130-133: the status is set Completed and Ok(messages) returned.
Finish ==
    /\ WithSessionGuard
    /\ pc = "b_finish"
    /\ status' = "Completed"
    /\ pc' = "done"
    /\ UNCHANGED <<mcpVars, otherVars, max_steps, mode, step, messages, registry, input, response,
                   content, execVars, events, ret, llmVars>>

(***************************************************************************)
(* Agent::stream (streaming mode).                                         *)
(***************************************************************************)
\* AgentEvent values.
EvMessageStart == [ev |-> "MessageStart", role |-> "Assistant"]
EvText(t) == [ev |-> "Text", text |-> t]
EvToolResult(name, result) == [ev |-> "ToolResult", name |-> name, result |-> result]
EvMessageEnd(reason) == [ev |-> "MessageEnd", finish_reason |-> reason]
EvError(e) == [ev |-> "Error", error |-> e]

\* lines 285-291: content.iter().position(|c| ToolCall with id == id); 0 for None.
PositionOf(c, id) ==
    IF \E i \in 1..Len(c) : IsToolCall(c[i]) /\ c[i].id = id
    THEN CHOOSE i \in 1..Len(c) :
            /\ IsToolCall(c[i]) /\ c[i].id = id
            /\ \A j \in 1..(i - 1) : ~(IsToolCall(c[j]) /\ c[j].id = id)
    ELSE 0

\* lines 274-282: the fragment, parsed on its own, replaces the arguments of
\* the last content block when that block is a ToolCall.
ApplyDelta(c, fragment) ==
    IF c # <<>> /\ IsToolCall(c[Len(c)])
    THEN [c EXCEPT ![Len(c)].arguments = from_str_or_empty(fragment)]
    ELSE c

\* Mutant: the call is put in front of the calls collected so far.
ApplyEndMutant(c, calls, id) ==
    IF PositionOf(c, id) # 0
    THEN <<RemoveAt(c, PositionOf(c, id)), <<c[PositionOf(c, id)]>> \o calls>>
    ELSE <<c, calls>>

\* lines 283-295: the first ToolCall block with the id is taken out of
\* content and pushed onto tool_calls; <<content, tool_calls>> afterwards.
ApplyEnd(c, calls, id) ==
    IF PositionOf(c, id) # 0
    THEN <<RemoveAt(c, PositionOf(c, id)), Append(calls, c[PositionOf(c, id)])>>
    ELSE <<c, calls>>

\* lines 336-348: one ToolResult event per result, named by the call's id.
RECURSIVE ResultEvents(_)
ResultEvents(rs) ==
    IF rs = <<>> THEN <<>>
    ELSE <<EvToolResult(Head(rs).tool_call_id, Head(rs).result)>> \o ResultEvents(Tail(rs))

\* Mutant: stream begins as run does, with a User message and the status
\* set Running.
StreamBeginsAsRun ==
    /\ pc = "idle"
    /\ \E text \in UserInputs : messages' = add_message(messages, new_user(text))
    /\ status' = "Running"
    /\ mode' = "stream"
    /\ pc' = "s_loop"
    /\ UNCHANGED <<mcpVars, otherVars, max_steps, step, registry, input, response, content, execVars,
                   events, ret, llmVars>>

\* stream, lines 214-220: the generator is created; it runs when polled.
Stream ==
    /\ pc = "idle"
    /\ mode' = "stream"
    /\ pc' = "s_loop"
    /\ UNCHANGED <<mcpVars, otherVars, max_steps, step, sessionVars, registry, input, response, content,
                   execVars, events, ret, llmVars>>

\* lines 223-228: the loop test, step += 1, yield MessageStart.
StreamLoopHead ==
    /\ pc = "s_loop"
    /\ StepsLeft(step, max_steps)
    /\ step' = step + 1
    /\ events' = Append(events, EvMessageStart)
    /\ pc' = "s_defs"
    /\ UNCHANGED <<mcpVars, otherVars, max_steps, mode, sessionVars, registry, input, response, content,
                   execVars, ret, llmVars>>

\* line 223: the loop test is false, the generator ends.
StreamLoopExit ==
    /\ pc = "s_loop"
    /\ ~StepsLeft(step, max_steps)
    /\ pc' = "done"
    /\ UNCHANGED <<mcpVars, otherVars, max_steps, mode, step, sessionVars, registry, input, response,
                   content, execVars, events, ret, llmVars>>

\* line 231: the tool definitions.
StreamGetToolDefinitions ==
    /\ WithRegistryGuard
    /\ pc = "s_defs"
    /\ input' = [messages |-> <<>>, tools |-> to_tool_definitions(registry)]
    /\ pc' = "s_input"
    /\ UNCHANGED <<mcpVars, otherVars, max_steps, mode, step, sessionVars, registry, response, content,
                   execVars, events, ret, llmVars>>

\* lines 234-243: the LLMInput is built from the session's log.
StreamBuildInput ==
    /\ WithSessionGuard
    /\ pc = "s_input"
    /\ input' = [input EXCEPT !.messages = messages]
    /\ pc' = "s_open"
    /\ UNCHANGED <<mcpVars, otherVars, max_steps, mode, step, sessionVars, registry, response, content,
                   execVars, events, ret, llmVars>>

\* lines 246-259: stream(input) returns Ok(stream); content and tool_calls
\* start empty.
StreamOpenOk ==
    /\ pc = "s_open"
    /\ llm_calls' = llm_calls + 1
    /\ content' = <<>>
    /\ tool_calls' = <<>>
    /\ pc' = "s_next"
    /\ UNCHANGED <<mcpVars, otherVars, max_steps, mode, step, sessionVars, registry, input, response,
                   ea_i, tool, results, invoked, events, ret, llm_used, llm_failed>>

\* lines 248-253: stream(input) returns Err: yield Error, return.
StreamOpenErr ==
    /\ pc = "s_open"
    /\ llm_calls' = llm_calls + 1
    /\ llm_failed' = TRUE
    /\ events' = Append(events, EvError("open"))
    /\ pc' = "done"
    /\ UNCHANGED <<mcpVars, otherVars, max_steps, mode, step, sessionVars, registry, input, response,
                   content, execVars, ret, llm_used>>

\* lines 262-304: the arms of the match on an Ok(e).
OnEvent(e) ==
    CASE e.type = "TextDelta" ->
           /\ events' = Append(events, EvText(e.text))
           /\ content' = Append(content, Text(e.text))
           /\ UNCHANGED tool_calls
      [] e.type = "ToolCallStart" ->
           /\ content' = Append(content, ToolCall(e.id, e.name, EmptyArgs))
           /\ UNCHANGED <<events, tool_calls>>
      [] e.type = "ToolCallDelta" ->
           /\ content' = ApplyDelta(content, e.arguments)
           /\ UNCHANGED <<events, tool_calls>>
      [] e.type = "ToolCallEnd" ->
           /\ content' = ApplyEnd(content, tool_calls, e.id)[1]
           /\ tool_calls' = ApplyEnd(content, tool_calls, e.id)[2]
           /\ UNCHANGED events
      [] e.type = "Finish" ->
           /\ events' = Append(events, EvMessageEnd(e.reason))
           /\ UNCHANGED <<content, tool_calls>>
      [] OTHER -> UNCHANGED <<content, tool_calls, events>>

\* The same step, with the item kept in recv.
StreamEventRecorded ==
    /\ pc = "s_next"
    /\ llm_used < MaxEvents
    /\ llm_used' = llm_used + 1
    /\ \E e \in LLMEvents :
         /\ OnEvent(e)
         /\ recv' = Append(recv, e)
    /\ UNCHANGED <<mcpVars, readVars, adapterVars, registryVars, permVars, guardVars, sharedVars,
                   requests, prior, max_steps, mode, pc, step, sessionVars, registry, input, response,
                   ea_i, tool, results, invoked, ret, llm_calls, llm_failed>>

\* lines 261-306: llm_stream.next() yields Some(Ok(e)).
StreamEvent ==
    /\ pc = "s_next"
    /\ llm_used < MaxEvents
    /\ llm_used' = llm_used + 1
    /\ \E e \in LLMEvents : OnEvent(e)
    /\ UNCHANGED <<mcpVars, otherVars, max_steps, mode, pc, step, sessionVars, registry, input, response,
                   ea_i, tool, results, invoked, ret, llm_calls, llm_failed>>

\* Mutant: the Error event is yielded and the event loop goes on.
StreamItemErrGoesOn ==
    /\ pc = "s_next"
    /\ llm_failed' = TRUE
    /\ events' = Append(events, EvError("item"))
    /\ UNCHANGED <<mcpVars, otherVars, max_steps, mode, pc, step, sessionVars, registry, input, response,
                   content, execVars, ret, llm_calls, llm_used>>

\* Mutant: the partly built Assistant message is saved before the return.
StreamItemErrSaves ==
    /\ pc = "s_next"
    /\ llm_failed' = TRUE
    /\ events' = Append(events, EvError("item"))
    /\ messages' = add_message(messages, new_assistant(content))
    /\ pc' = "done"
    /\ UNCHANGED <<mcpVars, otherVars, max_steps, mode, step, status, registry, input, response,
                   content, execVars, ret, llm_calls, llm_used>>

\* lines 299-304: llm_stream.next() yields Some(Err(e)): yield Error, return.
StreamItemErr ==
    /\ pc = "s_next"
    /\ llm_failed' = TRUE
    /\ events' = Append(events, EvError("item"))
    /\ pc' = "done"
    /\ UNCHANGED <<mcpVars, otherVars, max_steps, mode, step, sessionVars, registry, input, response,
                   content, execVars, ret, llm_calls, llm_used>>

\* lines 261 and 309-333: llm_stream.next() yields None; the Assistant
\* message is appended; without collected tool calls the loop breaks,
\* otherwise execute_all is called with them.
StreamSaveAssistant ==
    /\ WithSessionGuard
    /\ pc = "s_next"
    /\ messages' = add_message(messages, new_assistant(content))
    /\ content' = <<>>
    /\ IF tool_calls = <<>>
       THEN /\ pc' = "done"
            /\ UNCHANGED <<tool_calls, results, invoked, tool, ea_i>>
       ELSE StartExecuteAll(tool_calls, mode)
    /\ UNCHANGED <<mcpVars, otherVars, max_steps, mode, step, status, registry, input, response, events,
                   ret, llmVars>>

\* lines 336-348: the ToolResult events are yielded.
StreamEmitResults ==
    /\ pc = "s_emit"
    /\ events' = events \o ResultEvents(results)
    /\ pc' = "s_save_tools"
    /\ UNCHANGED <<mcpVars, otherVars, max_steps, mode, step, sessionVars, registry, input, response,
                   content, execVars, ret, llmVars>>

\* lines 351-355: the Tool message with the results is appended.
StreamSaveToolResults ==
    /\ WithSessionGuard
    /\ pc = "s_save_tools"
    /\ messages' = add_message(messages, new_tool_result(results))
    /\ pc' = "s_loop"
    /\ UNCHANGED <<mcpVars, otherVars, max_steps, mode, step, status, registry, input, response, content,
                   execVars, events, ret, llmVars>>

(***************************************************************************)
(* Specifications.                                                         *)
(***************************************************************************)
\* One agent run, batch or streaming, on a fresh session; the registry is
\* not changed during the run.
Next ==
    \/ Run
    \/ GetToolDefinitions
    \/ BuildInput
    \/ CompleteOk
    \/ CompleteErr
    \/ AppendAssistant
    \/ SaveToolResults
    \/ ReturnMessages
    \/ Finish
    \/ Stream
    \/ StreamLoopHead
    \/ StreamLoopExit
    \/ StreamGetToolDefinitions
    \/ StreamBuildInput
    \/ StreamOpenOk
    \/ StreamOpenErr
    \/ StreamEvent
    \/ StreamItemErr
    \/ StreamSaveAssistant
    \/ StreamEmitResults
    \/ StreamSaveToolResults
    \/ ExecuteLookup
    \/ ExecuteInvoke

Spec == Init /\ [][Next]_vars

\* The same, with every model call, tool call and lock acquisition
\* returning: a task that can take a step eventually takes one.
FairSpec == Init /\ [][Next]_vars /\ WF_vars(Next)

\* One execute_all call on any list of content blocks, while other holders
\* of the registry register and unregister tools.
ExecInit ==
    /\ InitCommon
    /\ max_steps = 0
    /\ registry = EmptyRegistry

ExecNext ==
    \/ ExecuteAll
    \/ ExecuteLookup
    \/ ExecuteInvoke
    \/ Register
    \/ Unregister

ExecSpec == ExecInit /\ [][ExecNext]_vars

\* One agent run, batch or streaming, with a local tool registered before
\* the run, while another task registers and unregisters MCP-adapted tools.
TurnInit ==
    /\ InitCommon
    /\ max_steps = MaxSteps
    /\ registry = register(EmptyRegistry, Tool("t1", "ok"))

TurnNext ==
    \/ Next
    \/ RegisterDuringRun
    \/ UnregisterDuringRun

TurnSpec == TurnInit /\ [][TurnNext]_vars

\* How many steps the run takes whose registry is replaced under it.
SwapSteps == 1

\* ToolRegistry::register by another task while an agent run is in
\* progress: the local tool is replaced by another handle of its name.
ReplaceDuringRun ==
    /\ WithRegistryGuard
    /\ mode \in {"batch", "stream"}
    /\ pc # "done"
    /\ registry' = register(registry, Tool("t1", "flagged"))
    /\ registry' # registry
    /\ UNCHANGED <<mcpVars, otherVars, max_steps, mode, pc, step, sessionVars, input, response, content,
                   execVars, events, ret, llmVars>>

\* One agent run of SwapSteps steps, batch or streaming, while another task
\* registers and unregisters an MCP-adapted tool and replaces the local one.
SwapInit ==
    /\ InitCommon
    /\ max_steps = SwapSteps
    /\ registry = register(EmptyRegistry, Tool("t1", "ok"))

SwapNext ==
    \/ Next
    \/ RegisterDuringRun
    \/ UnregisterDuringRun
    \/ ReplaceDuringRun

SwapSpec == SwapInit /\ [][SwapNext]_vars

\* One batch run of an agent made with a Session that is fresh or holds an
\* earlier exchange.
PriorLogs ==
    {<<>>, <<new_user("earlier"), new_assistant(<<Text("hi")>>)>>}

BatchInit ==
    /\ mode = "none"
    /\ pc = "idle"
    /\ step = 0
    /\ messages \in PriorLogs
    /\ status = "Idle"
    /\ input = NoInput
    /\ response = <<>>
    /\ content = <<>>
    /\ tool_calls = <<>>
    /\ ea_i = 0
    /\ tool = NoTool
    /\ results = <<>>
    /\ invoked = <<>>
    /\ events = <<>>
    /\ ret = Pending
    /\ llm_calls = 0
    /\ llm_used = 0
    /\ llm_failed = FALSE
    /\ McpUnused
    /\ ReadUnused
    /\ AdaptersUnused
    /\ RegistryUnused
    /\ PermissionsUnused
    /\ GuardsFree
    /\ SharedUnused
    /\ recv = <<>>
    /\ requests = <<>>
    /\ prior = messages
    /\ max_steps \in 0..MaxSteps
    /\ registry = register(EmptyRegistry, Tool("t1", "ok"))

BatchNext ==
    \/ Run
    \/ GetToolDefinitions
    \/ BuildInput
    \/ CompleteOk
    \/ CompleteErr
    \/ AppendAssistant
    \/ SaveToolResults
    \/ ReturnMessages
    \/ Finish
    \/ ExecuteLookup
    \/ ExecuteInvoke

BatchSpec == BatchInit /\ [][BatchNext]_vars

\* One streaming run on the Session of an agent: a fresh one, or one that
\* an earlier run has left with its log and its status.
PriorSessions ==
    {[messages |-> <<>>, status |-> "Idle"],
     [messages |-> <<new_user("earlier"), new_assistant(<<Text("hi")>>)>>,
      status |-> "Completed"]}

StreamingInit ==
    /\ mode = "none"
    /\ pc = "idle"
    /\ step = 0
    /\ \E s \in PriorSessions : messages = s.messages /\ status = s.status
    /\ input = NoInput
    /\ response = <<>>
    /\ content = <<>>
    /\ tool_calls = <<>>
    /\ ea_i = 0
    /\ tool = NoTool
    /\ results = <<>>
    /\ invoked = <<>>
    /\ events = <<>>
    /\ ret = Pending
    /\ llm_calls = 0
    /\ llm_used = 0
    /\ llm_failed = FALSE
    /\ McpUnused
    /\ ReadUnused
    /\ AdaptersUnused
    /\ RegistryUnused
    /\ PermissionsUnused
    /\ GuardsFree
    /\ SharedUnused
    /\ recv = <<>>
    /\ requests = <<>>
    /\ prior = messages
    /\ max_steps \in 0..MaxSteps
    /\ registry = register(EmptyRegistry, Tool("t1", "ok"))

StreamingNext ==
    \/ Stream
    \/ StreamLoopHead
    \/ StreamLoopExit
    \/ StreamGetToolDefinitions
    \/ StreamBuildInput
    \/ StreamOpenOk
    \/ StreamOpenErr
    \/ StreamEvent
    \/ StreamItemErr
    \/ StreamSaveAssistant
    \/ StreamEmitResults
    \/ StreamSaveToolResults
    \/ ExecuteLookup
    \/ ExecuteInvoke

StreamingSpec == StreamingInit /\ [][StreamingNext]_vars

\* One streaming run of one step, the items of its LLMStream recorded.
RecvInit ==
    /\ InitCommon
    /\ max_steps = 1
    /\ registry = register(EmptyRegistry, Tool("t1", "ok"))

RecvNext ==
    \/ Stream
    \/ StreamLoopHead
    \/ StreamLoopExit
    \/ StreamGetToolDefinitions
    \/ StreamBuildInput
    \/ StreamOpenOk
    \/ StreamOpenErr
    \/ StreamEventRecorded
    \/ StreamItemErr
    \/ StreamSaveAssistant
    \/ StreamEmitResults
    \/ StreamSaveToolResults
    \/ ExecuteLookup
    \/ ExecuteInvoke

RecvSpec == RecvInit /\ [][RecvNext]_vars

\* The points at which the generator of Agent::stream is suspended: its
\* yields and its awaits.  It runs only while its consumer polls it.
StreamPoints ==
    {"s_loop", "s_defs", "s_input", "s_open", "s_next", "s_emit", "s_save_tools",
     "x_lookup", "x_invoke"}

\* Mutant: the generator runs on without its consumer and saves the turn.
StopPullingMutant ==
    /\ mode = "stream"
    /\ pc \in StreamPoints
    /\ pc' = "dropped:" \o pc
    /\ messages' = IF pc = "s_next"
                   THEN add_message(messages, new_assistant(content))
                   ELSE messages
    /\ UNCHANGED <<mcpVars, otherVars, max_steps, mode, step, status, registry, input, response, content,
                   execVars, events, ret, llmVars>>

\* The consumer of the AgentStream stops polling it (or drops it): the
\* generator stays suspended where it is and takes no further step.
StopPulling ==
    /\ mode = "stream"
    /\ pc \in StreamPoints
    /\ pc' = "dropped:" \o pc
    /\ UNCHANGED <<mcpVars, otherVars, max_steps, mode, step, sessionVars, registry, input, response,
                   content, execVars, events, ret, llmVars>>

\* One streaming run whose consumer may stop at any point.
DropNext ==
    \/ Stream
    \/ StreamLoopHead
    \/ StreamLoopExit
    \/ StreamGetToolDefinitions
    \/ StreamBuildInput
    \/ StreamOpenOk
    \/ StreamOpenErr
    \/ StreamEvent
    \/ StreamItemErr
    \/ StreamSaveAssistant
    \/ StreamEmitResults
    \/ StreamSaveToolResults
    \/ ExecuteLookup
    \/ ExecuteInvoke
    \/ StopPulling

DropSpec == Init /\ [][DropNext]_vars

(***************************************************************************)
(* MCPClient (src/src/mcp/client.rs).  Its operations take &mut self, so    *)
(* one task is inside the client at a time; the child process and the       *)
(* remote server are the environment.                                       *)
(***************************************************************************)
\* A JSON-RPC request as far as its id and method.
Request(id, method) == [id |-> id, method |-> method]
\* create_initialize_request (lines 290-304): the id is the literal 1.
InitializeRequest == Request(1, "initialize")
\* create_json_rpc_request (lines 529-537): the id is message_id.fetch_add(1),
\* the value before the increment.
JsonRpcRequest(method) == Request(message_id, method)

\* The response objects a server may answer with: with or without an error
\* member (null counts as a member), with or without a result member, the
\* result with or without tools.
ErrorValues == {JAbsent, JNull, ErrorObject}
ResultValues ==
    {JAbsent, JString("done"), ResultObject(JAbsent), ResultObject(JArray(<<>>)),
     ResultObject(JArray(<<ToolInfoObject(JString("t2"), JString("remote t2"))>>))}
Responses == {ResponseObject(e, r) : e \in ErrorValues, r \in ResultValues}
\* What a line of the child's output can be: a response; a log line that is
\* no JSON; an empty line; bytes that are no UTF-8, for which read_line
\* returns Err.
McpLines ==
    {NoiseText("log"), NoiseText("empty"), NoiseText("bad_utf8")}
        \cup {JsonText(r, "compact") : r \in Responses}
\* What a server may answer to a POST.
HttpReplies ==
    {NoReply} \cup {HttpReply(st, b) : st \in {"success", "failure"},
                                       b \in {NoiseText("log")}
                                           \cup {JsonText(r, "compact") : r \in Responses}}

\* Where read_json_response is looping.
ReadPoints == {"connect_read", "list_read", "call_read"}
OpOf(point) ==
    CASE point = "connect_read" -> "connect"
      [] point = "list_read"    -> "list_tools"
      [] OTHER                  -> "call_tool"

\* The operation returns to its caller.
MReturn(op, result) ==
    /\ m_pc' = "idle"
    /\ m_ret' = [op |-> op, result |-> result, detail |-> NoDetail, answer |-> NoReply]

\* connect has returned Ok.
MReturnedConnect ==
    [op |-> "connect", result |-> "Ok", detail |-> NoDetail, answer |-> NoReply]

\* The operation returns an error with a message of the client's own.
MReturnErr(op, result, message) ==
    /\ m_pc' = "idle"
    /\ m_ret' = [op |-> op, result |-> result, detail |-> Message(message),
                 answer |-> NoReply]

\* The operation returns what it made of the answer it got.
MReturnOutcome(op, outcome, answer) ==
    /\ m_pc' = "idle"
    /\ m_ret' = [op |-> op, result |-> outcome.result, detail |-> outcome.detail,
                 answer |-> answer]

envVars == <<child, in_open, out_open, out_left>>
handleVars == <<process, stdin, stdout_reader, http_client, sse_url>>

\* connect_stdio, lines 206-231: the child is spawned with both pipes and the
\* three handles are stored, before anything is sent; or spawn fails.
ConnectStdio ==
    /\ m_pc = "idle"
    /\ transport = "stdio"
    /\ \/ /\ MReturn("connect", "ConnectionError")
          /\ UNCHANGED <<handleVars, sent, consumed, connected, envVars>>
       \/ /\ process' = Some
          /\ stdin' = Some
          /\ stdout_reader' = Some
          /\ child' = "running"
          /\ in_open' = TRUE
          /\ out_open' = TRUE
          /\ out_left' \in 0..MaxLines
          /\ sent' = <<>>
          /\ consumed' = 0
          /\ connected' = FALSE
          /\ m_pc' = "connect_send"
          /\ UNCHANGED <<m_ret, http_client, sse_url>>
    /\ UNCHANGED <<agentVars, otherVars, transport, message_id, child_kind>>

\* connect_stdio, line 234: send_initialize -> send_message_stdio (329-345);
\* the write fails when the pipe has no reader.
SendInitialize ==
    /\ m_pc = "connect_send"
    /\ IF in_open
       THEN /\ sent' = Append(sent, InitializeRequest)
            /\ m_pc' = "connect_read"
            /\ UNCHANGED m_ret
       ELSE /\ MReturn("connect", "ConnectionError")
            /\ UNCHANGED sent
    /\ UNCHANGED <<agentVars, otherVars, transport, handleVars, message_id, consumed, connected,
                   child_kind, envVars>>

\* read_json_response, lines 354-394, one iteration that reads a line: a
\* JSON line is returned to connect_stdio (which ignores what it says),
\* list_tools or call_tool; a blank line, a line that is no JSON, and an Err
\* of read_line all leave `line` different from Ok(Some(_)), and the loop
\* goes round.
ReadLine ==
    /\ m_pc \in ReadPoints
    /\ out_left > 0
    /\ out_left' = out_left - 1
    /\ \E line \in McpLines :
         IF ReadClosure(line).tag = "Ok" /\ ReadClosure(line).some
         THEN IF m_pc = "connect_read"
              THEN /\ consumed' = consumed + 1
                   /\ connected' = TRUE
                   /\ MReturn("connect", "Ok")
              ELSE /\ LET rsp == from_str(ReadClosure(line).text).value IN
                        MReturnOutcome(OpOf(m_pc),
                                       IF m_pc = "list_read"
                                       THEN ListToolsStdioResult(rsp)
                                       ELSE CallToolStdioResult(rsp),
                                       HttpReply("line", line))
                   /\ UNCHANGED <<consumed, connected>>
         ELSE UNCHANGED <<m_pc, m_ret, consumed, connected>>
    /\ UNCHANGED <<agentVars, otherVars, transport, handleVars, message_id, sent, child,
                   child_kind, in_open, out_open>>

\* read_json_response, lines 354-394, one iteration at end-of-file:
\* read_line returns Ok(0), the line is empty, the closure returns Ok(None)
\* and the loop goes round with nothing changed.
ReadAtEof ==
    /\ m_pc \in ReadPoints
    /\ out_left = 0
    /\ ~out_open
    /\ UNCHANGED vars

\* list_tools / call_tool on the process transport, up to the write (lines
\* 443-448, 493-498, 329-345): a request is created, which takes an id; then
\* there is no stdin handle, or the write fails, or the request is written.
StartCallStdio(op, method, point) ==
    /\ m_pc = "idle"
    /\ transport = "stdio"
    /\ message_id < MaxRequests
    /\ message_id' = message_id + 1
    /\ IF stdin = None \/ ~in_open
       THEN /\ MReturnErr(op, "ConnectionError",
                          IF stdin = None THEN "Not connected"
                          ELSE "Failed to write to stdin")
            /\ UNCHANGED sent
       ELSE /\ sent' = Append(sent, JsonRpcRequest(method))
            /\ m_pc' = point
            /\ UNCHANGED m_ret
    /\ UNCHANGED <<agentVars, otherVars, transport, handleVars, consumed, connected, child_kind,
                   envVars>>

ListToolsStdio == StartCallStdio("list_tools", "tools/list", "list_read")
CallToolStdio == StartCallStdio("call_tool", "tools/call", "call_read")

\* connect_http, lines 246-270: the client is built, the initialize request
\* posted, and the client stored when the status is a success.
ConnectHttp ==
    /\ m_pc = "idle"
    /\ transport = "http"
    /\ \/ /\ MReturn("connect", "ConnectionError")
          /\ UNCHANGED <<http_client, sent, consumed, connected>>
       \/ /\ MReturn("connect", "HttpError")
          /\ UNCHANGED <<http_client, sent, consumed, connected>>
       \/ /\ http_client' = Some
          /\ sent' = <<InitializeRequest>>
          /\ consumed' = 1
          /\ connected' = TRUE
          /\ MReturn("connect", "Ok")
    /\ UNCHANGED <<agentVars, otherVars, transport, process, stdin, stdout_reader, sse_url,
                   message_id, child_kind, envVars>>

\* connect_sse, lines 277-286: the client is built and stored with the url;
\* nothing is sent.
ConnectSse ==
    /\ m_pc = "idle"
    /\ transport = "sse"
    /\ \/ /\ MReturn("connect", "ConnectionError")
          /\ UNCHANGED <<http_client, sse_url, sent, consumed, connected>>
       \/ /\ http_client' = Some
          /\ sse_url' = Some
          /\ sent' = <<>>
          /\ consumed' = 0
          /\ connected' = TRUE
          /\ MReturn("connect", "Ok")
    /\ UNCHANGED <<agentVars, otherVars, transport, process, stdin, stdout_reader, message_id,
                   child_kind, envVars>>

\* list_tools / call_tool over HTTP or SSE (lines 471-478, 517-524) with
\* call_json_rpc_method (540-584): a request is created; without a client
\* ConnectionError; otherwise it is posted and answered or not.
CallHttp(op, method) ==
    /\ m_pc = "idle"
    /\ transport \in {"http", "sse"}
    /\ message_id < MaxRequests
    /\ message_id' = message_id + 1
    /\ IF http_client = None
       THEN /\ MReturnErr(op, "ConnectionError", "Not connected")
            /\ UNCHANGED sent
       ELSE /\ sent' = Append(sent, JsonRpcRequest(method))
            /\ \E reply \in HttpReplies :
                 MReturnOutcome(op,
                                IF op = "list_tools"
                                THEN ListToolsHttpResult(reply)
                                ELSE CallToolHttpResult(reply),
                                reply)
    /\ UNCHANGED <<agentVars, otherVars, transport, handleVars, consumed, connected, child_kind,
                   envVars>>

ListToolsHttp == CallHttp("list_tools", "tools/list")
CallToolHttp == CallHttp("call_tool", "tools/call")

\* disconnect, lines 431-438: the pipe handles and the HTTP client are dropped.
Cleanup ==
    /\ stdin' = None
    /\ stdout_reader' = None
    /\ http_client' = None
    /\ sse_url' = None
    /\ connected' = FALSE

\* disconnect, lines 425-438: the process is taken out of the client and
\* waited for; without a process the handles are dropped at once.
Disconnect ==
    /\ m_pc = "idle"
    /\ IF process = Some
       THEN /\ process' = None
            /\ m_pc' = "wait"
            /\ UNCHANGED <<m_ret, stdin, stdout_reader, http_client, sse_url, connected>>
       ELSE /\ Cleanup
            /\ MReturn("disconnect", "Ok")
            /\ UNCHANGED process
    /\ UNCHANGED <<agentVars, otherVars, transport, message_id, sent, consumed, child_kind,
                   envVars>>

\* disconnect, lines 426-438: process.wait() returns once the child has
\* exited; the client still holds the child's stdin while it waits.
WaitReturns ==
    /\ m_pc = "wait"
    /\ child = "exited"
    /\ Cleanup
    /\ MReturn("disconnect", "Ok")
    /\ UNCHANGED <<agentVars, otherVars, transport, process, message_id, sent, consumed,
                   child_kind, envVars>>

\* impl Drop for MCPClient, lines 609-615: a process still held is killed;
\* all handles go with the client.
DropClient ==
    /\ m_pc = "idle"
    /\ m_pc' = "dropped"
    /\ process' = None
    /\ Cleanup
    /\ IF process = Some
       THEN /\ child' = "exited"
            /\ in_open' = FALSE
            /\ out_open' = FALSE
            /\ out_left' = 0
       ELSE UNCHANGED envVars
    /\ UNCHANGED <<agentVars, otherVars, transport, message_id, m_ret, sent, consumed, child_kind>>

\* The child process exits: by itself when it is of that kind, otherwise
\* only once its input is closed.  Both pipe ends it held are closed; what
\* it had not written yet is never written.
ChildExit ==
    /\ child = "running"
    /\ child_kind = "exits" \/ stdin = None
    /\ child' = "exited"
    /\ in_open' = FALSE
    /\ out_open' = FALSE
    /\ out_left' \in 0..out_left
    /\ UNCHANGED <<agentVars, otherVars, transport, handleVars, message_id, m_pc, m_ret, sent,
                   consumed, connected, child_kind>>

\* A client built for any transport, in front of any kind of child.
McpInit ==
    /\ AgentIdle
    /\ max_steps = 0
    /\ registry = EmptyRegistry
    /\ McpBuilt
    /\ OthersUnused
    /\ transport \in Transports
    /\ child_kind \in ChildKinds

\* The steps inside an operation that has been called.
McpClientStep ==
    \/ SendInitialize
    \/ ReadLine
    \/ WaitReturns

McpNext ==
    \/ ConnectStdio
    \/ SendInitialize
    \/ ReadLine
    \/ ReadAtEof
    \/ ListToolsStdio
    \/ CallToolStdio
    \/ ConnectHttp
    \/ ConnectSse
    \/ ListToolsHttp
    \/ CallToolHttp
    \/ Disconnect
    \/ WaitReturns
    \/ DropClient
    \/ ChildExit

McpSpec == McpInit /\ [][McpNext]_vars

\* The same, with an operation that can go on going on: a write, a read of a
\* line that is there, a wait for a child that has exited, all return.
McpFairSpec == McpInit /\ [][McpNext]_vars /\ WF_vars(McpClientStep)

(***************************************************************************)
(* MCPClient::read_json_response over a given output of the child.          *)
(***************************************************************************)
\* The JSON documents and the lines the child may write.
ReadValues == {JNull, ResponseObject(JAbsent, JString("done"))}
LineTexts ==
    NoiseTexts \cup {JsonText(v, l) : v \in ReadValues, l \in {"compact", "spaced"}}

\* read_json_response is called (lines 349-351, with a reader in place).
ReadCall ==
    /\ read_pc = "idle"
    /\ read_pc' = "loop"
    /\ read_from' = out_pos
    /\ read_ret' = ReadPending
    /\ UNCHANGED <<agentVars, mcpVars, adapterVars, registryVars, permVars, guardVars, moreVars, out_lines, out_pos>>

\* Mutant: each call reads through a buffered reader of its own, and what
\* that reader had buffered beyond the line is lost with it.
ReadIterationMutant ==
    /\ read_pc = "loop"
    /\ out_pos < Len(out_lines)
    /\ LET line == ReadClosure(out_lines[out_pos + 1]) IN
         IF line.tag = "Ok" /\ line.some
         THEN /\ read_ret' = from_str(line.text)
              /\ read_pc' = "idle"
              /\ out_pos' = Len(out_lines)
         ELSE /\ out_pos' = out_pos + 1
              /\ UNCHANGED <<read_ret, read_pc>>
    /\ UNCHANGED <<agentVars, mcpVars, adapterVars, registryVars, permVars, guardVars, moreVars, out_lines, read_from>>

\* read_json_response, lines 354-394, one iteration of the loop: the shared
\* reader hands out the next line; `if let Ok(Some(json_line)) = line`
\* returns the parsed text, anything else goes round the loop.
ReadIteration ==
    /\ read_pc = "loop"
    /\ out_pos < Len(out_lines)
    /\ out_pos' = out_pos + 1
    /\ LET line == ReadClosure(out_lines[out_pos + 1]) IN
         IF line.tag = "Ok" /\ line.some
         THEN /\ read_ret' = from_str(line.text)
              /\ read_pc' = "idle"
         ELSE UNCHANGED <<read_ret, read_pc>>
    /\ UNCHANGED <<agentVars, mcpVars, adapterVars, registryVars, permVars, guardVars, moreVars, out_lines, read_from>>

\* A connected client in front of any output of up to MaxOutput lines.
ReadInit ==
    /\ AgentIdle
    /\ max_steps = 0
    /\ registry = EmptyRegistry
    /\ McpUnused
    /\ AdaptersUnused
    /\ RegistryUnused
    /\ PermissionsUnused
    /\ GuardsFree
    /\ MoreUnused
    /\ out_lines \in SeqsUpTo(LineTexts, MaxOutput)
    /\ out_pos = 0
    /\ read_pc = "idle"
    /\ read_from = 0
    /\ read_ret = ReadPending

ReadNext ==
    \/ ReadCall
    \/ ReadIteration

ReadSpec == ReadInit /\ [][ReadNext]_vars

(***************************************************************************)
(* The requests of one client on the process transport, one after the      *)
(* other, over a given output of the child: connect_stdio (client.rs        *)
(* 233-235), list_tools (442-470) and call_tool (488-515) each write their   *)
(* request and call read_json_response.                                     *)
(***************************************************************************)
\* What the requests leave alone.
serialFrame ==
    <<agentVars, mcpVars, adapterVars, registryVars, permVars, guardVars, sharedVars, recv,
      prior, out_lines>>

\* A request is written and read_json_response called: initialize by
\* connect_stdio first, tools/list and tools/call after it.
SerialRequest ==
    /\ read_pc = "idle"
    /\ Len(requests) < MaxRequests
    /\ \E method \in IF requests = <<>> THEN {"initialize"} ELSE {"tools/list", "tools/call"} :
         requests' = Append(requests, [method |-> method, answer |-> ReadPending])
    /\ read_pc' = "loop"
    /\ read_from' = out_pos
    /\ read_ret' = ReadPending
    /\ UNCHANGED <<serialFrame, out_pos>>

\* Mutant: a line that is no JSON ends the read with an error.
SerialIterationMutant ==
    /\ read_pc = "loop"
    /\ out_pos < Len(out_lines)
    /\ out_pos' = out_pos + 1
    /\ LET line == ReadClosure(out_lines[out_pos + 1]) IN
         /\ read_ret' = IF line.tag = "Ok" /\ line.some THEN from_str(line.text) ELSE ParseErr
         /\ read_pc' = "idle"
         /\ requests' = [requests EXCEPT ![Len(requests)].answer = read_ret']
    /\ UNCHANGED <<serialFrame, read_from>>

\* read_json_response, lines 354-394, one iteration of the loop, and the
\* return to the request.
SerialIteration ==
    /\ read_pc = "loop"
    /\ out_pos < Len(out_lines)
    /\ out_pos' = out_pos + 1
    /\ LET line == ReadClosure(out_lines[out_pos + 1]) IN
         IF line.tag = "Ok" /\ line.some
         THEN /\ read_ret' = from_str(line.text)
              /\ read_pc' = "idle"
              /\ requests' = [requests EXCEPT ![Len(requests)].answer = read_ret']
         ELSE UNCHANGED <<read_ret, read_pc, requests>>
    /\ UNCHANGED <<serialFrame, read_from>>

SerialNext ==
    \/ SerialRequest
    \/ SerialIteration

\* A client whose child has been spawned, in front of any output of it.
SerialSpec == ReadInit /\ [][SerialNext]_vars

(***************************************************************************)
(* MCPToolAdapter::execute (src/src/mcp/adapter.rs 40-52) by tasks that     *)
(* share one client, with MCPClient::call_tool as each of them runs it.     *)
(***************************************************************************)
\* Display of an MCPError (client.rs 58-77): the variant's text and its message.
MCPErrorDisplay(out) ==
    [prefix |-> CASE out.result = "ConnectionError" -> "Connection error: "
                  [] out.result = "ProtocolError"   -> "Protocol error: "
                  [] out.result = "ExecutionError"  -> "Execution error: "
                  [] out.result = "HttpError"       -> "HTTP error: "
                  [] OTHER                          -> "Timeout",
     message |-> out.detail]

\* Mutant: an error of call_tool becomes an error-flagged ToolResult.
AdapterResultMutant(out) ==
    IF out.result = "Ok"
    THEN [tag |-> "Ok", output |-> out.detail.text, metadata |-> None, error |-> None]
    ELSE [tag |-> "Ok", output |-> NoiseText("empty"), metadata |-> None,
          error |-> "Some"]

\* execute, lines 42-51: map_err(|e| ToolError::ExecutionFailed(e.to_string()))?
\* and Ok(ToolResult { output, metadata: None, error: None }).
AdapterResult(out) ==
    IF out.result = "Ok"
    THEN [tag |-> "Ok", output |-> out.detail.text, metadata |-> None, error |-> None]
    ELSE [tag |-> "Err", kind |-> "ExecutionFailed", reason |-> MCPErrorDisplay(out)]

\* execute returns: what call_tool returned is mapped, and the guard of the
\* client goes out of scope.
AdapterReturn(t, out) ==
    /\ a_out' = [a_out EXCEPT ![t] = out]
    /\ a_ret' = [a_ret EXCEPT ![t] = AdapterResult(out)]
    /\ a_pc' = [a_pc EXCEPT ![t] = "done"]
    /\ client_lock' = None

\* Mutant: the client is used without its Mutex being taken.
AdapterExecuteMutant(t) ==
    /\ a_pc[t] = "idle"
    /\ client_lock' = t
    /\ \E name \in AdapterNames, args \in {EmptyArgs, ArgsQ} :
         a_call' = [a_call EXCEPT ![t] = [name |-> name, args |-> args]]
    /\ a_pc' = [a_pc EXCEPT ![t] = "locked"]
    /\ UNCHANGED <<agentVars, mcpVars, readVars, registryVars, permVars, guardVars, moreVars, a_out, a_ret, a_calls>>

\* execute(args) of an adapter, line 41: self.client.lock().await returns
\* once no other task holds the guard.
AdapterExecute(t) ==
    /\ a_pc[t] = "idle"
    /\ client_lock = None
    /\ client_lock' = t
    /\ \E name \in AdapterNames, args \in {EmptyArgs, ArgsQ} :
         a_call' = [a_call EXCEPT ![t] = [name |-> name, args |-> args]]
    /\ a_pc' = [a_pc EXCEPT ![t] = "locked"]
    /\ UNCHANGED <<agentVars, mcpVars, readVars, registryVars, permVars, guardVars, moreVars, a_out, a_ret, a_calls>>

\* execute, lines 42-43, and call_tool up to the request being on its way
\* (client.rs 488-498, 517-518, 329-345, 545-553): the request takes an id;
\* without a handle, or when the write fails, call_tool returns an error.
AdapterCallTool(t) ==
    /\ a_pc[t] = "locked"
    /\ message_id < MaxRequests
    /\ message_id' = message_id + 1
    /\ a_calls' = Append(a_calls, [run |-> t, name |-> a_call[t].name,
                                   args |-> a_call[t].args])
    /\ IF (transport = "stdio" /\ stdin = None) \/ (transport # "stdio" /\ http_client = None)
       THEN /\ AdapterReturn(t, Outcome("ConnectionError", Message("Not connected")))
            /\ UNCHANGED sent
       ELSE IF transport = "stdio" /\ ~in_open
       THEN /\ AdapterReturn(t, Outcome("ConnectionError",
                                        Message("Failed to write to stdin")))
            /\ UNCHANGED sent
       ELSE /\ sent' = Append(sent, JsonRpcRequest("tools/call"))
            /\ a_pc' = [a_pc EXCEPT ![t] = "sent"]
            /\ UNCHANGED <<client_lock, a_out, a_ret>>
    /\ UNCHANGED <<agentVars, readVars, registryVars, permVars, guardVars, moreVars, a_call, transport, handleVars, m_pc, m_ret,
                   consumed, connected, child_kind, envVars>>

\* call_tool from the request on its way to its return (client.rs 500-515,
\* 354-394 on the process transport, 553-584 and 519 on HTTP and SSE), and
\* the return of execute: a line that is no JSON goes round the read loop.
AdapterAnswer(t) ==
    /\ a_pc[t] = "sent"
    /\ IF transport = "stdio"
       THEN /\ out_left > 0
            /\ out_left' = out_left - 1
            /\ \E line \in McpLines :
                 IF ReadClosure(line).tag = "Ok" /\ ReadClosure(line).some
                 THEN AdapterReturn(t, CallToolStdioResult(
                                           from_str(ReadClosure(line).text).value))
                 ELSE UNCHANGED <<client_lock, a_pc, a_out, a_ret>>
       ELSE /\ \E reply \in HttpReplies : AdapterReturn(t, CallToolHttpResult(reply))
            /\ UNCHANGED out_left
    /\ UNCHANGED <<agentVars, readVars, registryVars, permVars, guardVars, moreVars, a_call, a_calls, transport, handleVars,
                   message_id, m_pc, m_ret, sent, consumed, connected, child, child_kind,
                   in_open, out_open>>

\* A client that has connected: its handles are in place.
McpConnected ==
    /\ message_id = 0
    /\ m_pc = "idle"
    /\ m_ret = MReturnedConnect
    /\ connected = TRUE
    /\ IF transport = "stdio"
       THEN /\ process = Some /\ stdin = Some /\ stdout_reader = Some
            /\ http_client = None /\ sse_url = None
            /\ sent = <<InitializeRequest>> /\ consumed = 1
            /\ child = "running" /\ in_open = TRUE /\ out_open = TRUE
            /\ out_left \in 0..MaxLines
       ELSE /\ process = None /\ stdin = None /\ stdout_reader = None
            /\ http_client = Some
            /\ sse_url = IF transport = "sse" THEN Some ELSE None
            /\ sent = IF transport = "sse" THEN <<>> ELSE <<InitializeRequest>>
            /\ consumed = IF transport = "sse" THEN 0 ELSE 1
            /\ child = "none" /\ in_open = FALSE /\ out_open = FALSE
            /\ out_left = 0

\* Adapters made for a client that has connected, or for one that never has.
AdapterInit ==
    /\ AgentIdle
    /\ max_steps = 0
    /\ registry = EmptyRegistry
    /\ ReadUnused
    /\ AdaptersUnused
    /\ RegistryUnused
    /\ PermissionsUnused
    /\ GuardsFree
    /\ MoreUnused
    /\ transport \in Transports
    /\ child_kind \in ChildKinds
    /\ McpBuilt \/ McpConnected

AdapterNext ==
    \/ \E t \in Runs : AdapterExecute(t)
    \/ \E t \in Runs : AdapterCallTool(t)
    \/ \E t \in Runs : AdapterAnswer(t)
    \/ ChildExit

AdapterSpec == AdapterInit /\ [][AdapterNext]_vars

(***************************************************************************)
(* PermissionManager (src/src/permission/manager.rs).  Strings are          *)
(* sequences of characters, so that the glob and the substring tests are   *)
(* computed.                                                               *)
(***************************************************************************)
\* How many rules are added.
MaxRules == 2

\* Permission, lines 18-27.
Permission(pattern, action, patterns) ==
    [tool |-> pattern, action |-> action, patterns |-> patterns]
\* PermissionContext, lines 30-38, without the session id, which check
\* does not read.
PermissionContext(name, args) == [tool |-> name, args |-> args]
\* A serde_json object, by the sequence of its values.
ArgsObject(values) == [kind |-> "object", values |-> values]
\* Option<Vec<String>> of Permission.patterns.
SomePatterns(ps) == [is_some |-> TRUE, v |-> ps]
NoPatterns == [is_some |-> FALSE, v |-> <<>>]

\* The regular expression of tool_matches, lines 106-108, as tokens: "**"
\* becomes ".*" and every "*" then becomes "[^/]*", the one of ".*"
\* included.
RECURSIVE regex_pattern(_)
regex_pattern(pattern) ==
    IF pattern = <<>> THEN <<>>
    ELSE IF Len(pattern) >= 2 /\ pattern[1] = "*" /\ pattern[2] = "*"
    THEN <<"any", "not_slash_star">> \o regex_pattern(Tail(Tail(pattern)))
    ELSE IF pattern[1] = "*"
    THEN <<"not_slash_star">> \o regex_pattern(Tail(pattern))
    ELSE <<pattern[1]>> \o regex_pattern(Tail(pattern))

\* Regex::new, line 110: an unclosed group is an error.
RegexIsValid(pattern) == \A i \in 1..Len(pattern) : pattern[i] # "("

\* Regex::is_match of the anchored expression.
RECURSIVE is_match(_, _)
is_match(re, text) ==
    IF re = <<>> THEN text = <<>>
    ELSE IF re[1] = "not_slash_star"
    THEN \/ is_match(Tail(re), text)
         \/ text # <<>> /\ text[1] # "/" /\ is_match(re, Tail(text))
    ELSE IF re[1] = "any"
    THEN text # <<>> /\ is_match(Tail(re), Tail(text))
    ELSE text # <<>> /\ text[1] = re[1] /\ is_match(Tail(re), Tail(text))

\* tool_matches, lines 100-114.
tool_matches(pattern, name) ==
    IF pattern = <<"*">> THEN TRUE
    ELSE IF ~RegexIsValid(pattern) THEN FALSE
    ELSE is_match(regex_pattern(pattern), name)

\* str::contains.
contains(text, pattern) ==
    \E i \in 0..(Len(text) - Len(pattern)) : SubSeq(text, i + 1, i + Len(pattern)) = pattern

\* args_match, lines 117-138.
args_match(patterns, args) ==
    \/ \E i \in 1..Len(patterns) :
          IF args.kind = "string" THEN contains(args.s, patterns[i])
          ELSE /\ args.kind = "object"
               /\ \E j \in 1..Len(args.values) :
                     /\ args.values[j].kind = "string"
                     /\ contains(args.values[j].s, patterns[i])
    \/ patterns = <<>>

\* matches, lines 83-97.
matches(rule, ctx) ==
    IF rule.tool # <<"*">> /\ ~tool_matches(rule.tool, ctx.tool) THEN FALSE
    ELSE IF rule.patterns.is_some /\ ~args_match(rule.patterns.v, ctx.args) THEN FALSE
    ELSE TRUE

\* ask_user, lines 141-149.
ask_user(ctx) == "Deny"

\* Mutant: a context that no rule matches is allowed.
RECURSIVE checkMutant(_, _)
checkMutant(rs, ctx) ==
    IF rs = <<>> THEN "Allow"
    ELSE IF matches(rs[1], ctx)
    THEN CASE rs[1].action = "Allow" -> "Allow"
           [] rs[1].action = "Deny"  -> "Deny"
           [] rs[1].action = "Ask"   -> ask_user(ctx)
    ELSE checkMutant(Tail(rs), ctx)

\* check, lines 69-80: the first rule that matches decides.
RECURSIVE check(_, _)
check(rs, ctx) ==
    IF rs = <<>> THEN "Deny"
    ELSE IF matches(rs[1], ctx)
    THEN CASE rs[1].action = "Allow" -> "Allow"
           [] rs[1].action = "Deny"  -> "Deny"
           [] rs[1].action = "Ask"   -> ask_user(ctx)
    ELSE check(Tail(rs), ctx)

\* The rules and the contexts explored.
ToolPatterns == {<<"*">>, <<"a", "*">>, <<"*", "*">>, <<"(">>}
PermissionActions == {"Allow", "Deny", "Ask"}
ArgPatterns == {NoPatterns, SomePatterns(<<>>), SomePatterns(<<<<"x">>>>)}
Permissions ==
    {Permission(t, a, ps) : t \in ToolPatterns, a \in PermissionActions, ps \in ArgPatterns}
CheckedTools == {<<"a">>, <<"a", "/", "b">>, <<"b">>}
CheckedArgs ==
    {JString(<<"x">>), JString(<<"y">>), ArgsObject(<<JNull, JString(<<"y", "x">>)>>), JNull}

\* add_rule, lines 64-66.
AddRule ==
    /\ Len(rules) < MaxRules
    /\ \E rule \in Permissions : rules' = Append(rules, rule)
    /\ perm_ctx' = NoContext
    /\ perm_result' = None
    /\ UNCHANGED <<agentVars, mcpVars, readVars, adapterVars, registryVars, guardVars, moreVars>>

\* check(ctx), lines 69-80.
Check ==
    /\ \E name \in CheckedTools, args \in CheckedArgs :
         /\ perm_ctx' = PermissionContext(name, args)
         /\ perm_result' = check(rules, perm_ctx')
    /\ UNCHANGED <<agentVars, mcpVars, readVars, adapterVars, registryVars, guardVars, moreVars, rules>>

\* PermissionManager::new.
PermInit ==
    /\ AgentIdle
    /\ max_steps = 0
    /\ registry = EmptyRegistry
    /\ McpUnused
    /\ OthersUnused

PermNext ==
    \/ AddRule
    \/ Check

PermSpec == PermInit /\ [][PermNext]_vars

(***************************************************************************)
(* ToolRegistry (src/src/tool/registry.rs) under any sequence of register,  *)
(* unregister and get.                                                      *)
(***************************************************************************)
\* One operation as it is recorded.
RegistryOp(op, name, t, returned, before, after) ==
    [op |-> op, name |-> name, tool |-> t, ret |-> returned, before |-> before,
     after |-> after]
\* The last two operations.
Recorded(ops, e) == IF ops = <<>> THEN <<e>> ELSE <<ops[Len(ops)], e>>

\* register(tool), lines 20-23.
RegistryRegister ==
    /\ \E t \in AllTools :
         /\ registry' = register(registry, t)
         /\ reg_names' = reg_names \cup {t.name}
         /\ reg_ops' = Recorded(reg_ops, RegistryOp("register", t.name, t, NoTool, registry,
                                                    registry'))
    /\ UNCHANGED <<mcpVars, readVars, adapterVars, permVars, guardVars, moreVars, max_steps, mode, pc, step, sessionVars,
                   input, response, content, execVars, events, ret, llmVars>>

\* unregister(name), lines 26-28: the handle removed is returned.
RegistryUnregister ==
    /\ \E n \in ToolNames :
         /\ registry' = unregister(registry, n)
         /\ reg_names' = reg_names \ {n}
         /\ reg_ops' = Recorded(reg_ops, RegistryOp("unregister", n, NoTool,
                                                    get(registry, n), registry, registry'))
    /\ UNCHANGED <<mcpVars, readVars, adapterVars, permVars, guardVars, moreVars, max_steps, mode, pc, step, sessionVars,
                   input, response, content, execVars, events, ret, llmVars>>

\* Mutant: get takes the handle out of the map.
RegistryGetMutant ==
    /\ \E n \in ToolNames :
         /\ registry' = [registry EXCEPT ![n] = NoTool]
         /\ reg_ops' = Recorded(reg_ops, RegistryOp("get", n, NoTool, get(registry, n),
                                                    registry, registry'))
    /\ UNCHANGED <<mcpVars, readVars, adapterVars, permVars, guardVars, moreVars, max_steps, mode, pc, step, sessionVars,
                   input, response, content, execVars, events, ret, llmVars, reg_names>>

\* get(name), lines 31-33, through &self.
RegistryGet ==
    /\ \E n \in ToolNames :
         reg_ops' = Recorded(reg_ops, RegistryOp("get", n, NoTool, get(registry, n),
                                                 registry, registry))
    /\ UNCHANGED <<mcpVars, readVars, adapterVars, permVars, guardVars, moreVars, max_steps, mode, pc, step, sessionVars,
                   registry, input, response, content, execVars, events, ret, llmVars,
                   reg_names>>

\* ToolRegistry::new.
RegistryInit ==
    /\ AgentIdle
    /\ max_steps = 0
    /\ registry = EmptyRegistry
    /\ McpUnused
    /\ OthersUnused

RegistryNext ==
    \/ RegistryRegister
    \/ RegistryUnregister
    \/ RegistryGet

RegistrySpec == RegistryInit /\ [][RegistryNext]_vars

(***************************************************************************)
(* Two concurrent Agent::run calls on one agent: each locks the agent's     *)
(* Session for single reads and writes (agent_loop.rs 122-211).             *)
(***************************************************************************)
\* How many steps each of the two runs may take.
SharedSteps == 1

\* Responses of complete() to the two runs.
SharedResponses ==
    {<<Text("hi")>>} \cup {<<ToolCall(id, "t1", EmptyArgs)>> : id \in CallIds}

\* execute_all on a registry nobody changes (executor.rs 50-105).
ExecuteAllResults(reg, calls) ==
    [i \in 1..Len(calls) |->
        IF get(reg, calls[i].name) = NoTool
        THEN NotFoundResult(calls[i].id, calls[i].name)
        ELSE ConvertResult(calls[i].id,
                           ToolExecute(get(reg, calls[i].name), calls[i].arguments))]

\* What the actions of the two runs leave alone.
sharedFrame ==
    <<mcpVars, readVars, adapterVars, registryVars, permVars, guardVars, recv, requests, prior,
      max_steps,
      mode,
      pc, step, registry, input, response, content, execVars, events, ret, llmVars>>

\* run, lines 123-126.
SharedRun(r) ==
    /\ p_pc[r] = "idle"
    /\ session_guard = None
    /\ \E text \in UserInputs : messages' = add_message(messages, new_user(text))
    /\ status' = "Running"
    /\ p_pc' = [p_pc EXCEPT ![r] = "loop"]
    /\ UNCHANGED <<sharedFrame, p_step, p_response, p_results, p_ret>>

\* run_loop, lines 140-157: the loop test, step += 1, the tool definitions
\* and the LLMInput with a clone of the log.
SharedLoopHead(r) ==
    /\ p_pc[r] = "loop"
    /\ StepsLeft(p_step[r], max_steps)
    /\ registry_guard = None
    /\ session_guard = None
    /\ p_step' = [p_step EXCEPT ![r] = p_step[r] + 1]
    /\ p_pc' = [p_pc EXCEPT ![r] = "complete"]
    /\ UNCHANGED <<sharedFrame, sessionVars, p_response, p_results, p_ret>>

\* line 162: complete returns a response.
SharedCompleteOk(r) ==
    /\ p_pc[r] = "complete"
    /\ \E content_r \in SharedResponses : p_response' = [p_response EXCEPT ![r] = content_r]
    /\ p_pc' = [p_pc EXCEPT ![r] = "append"]
    /\ UNCHANGED <<sharedFrame, sessionVars, p_step, p_results, p_ret>>

\* line 162: complete returns an error, which run_loop and run return.
SharedCompleteErr(r) ==
    /\ p_pc[r] = "complete"
    /\ p_ret' = [p_ret EXCEPT ![r] = "LLMError"]
    /\ p_pc' = [p_pc EXCEPT ![r] = "done"]
    /\ UNCHANGED <<sharedFrame, sessionVars, p_step, p_response, p_results>>

\* lines 164-195: the Assistant message is appended; without tool calls
\* the loop breaks.
SharedAppendAssistant(r) ==
    /\ p_pc[r] = "append"
    /\ session_guard = None
    /\ messages' = add_message(messages, new_assistant(p_response[r]))
    /\ p_pc' = [p_pc EXCEPT ![r] =
                  IF SelectCalls(p_response[r]) = <<>> THEN "return" ELSE "execute"]
    /\ UNCHANGED <<sharedFrame, status, p_step, p_response, p_results, p_ret>>

\* line 199: execute_all returns the results.
SharedExecuteAll(r) ==
    /\ p_pc[r] = "execute"
    /\ registry_guard = None
    /\ p_results' = [p_results EXCEPT
                       ![r] = ExecuteAllResults(registry, SelectCalls(p_response[r]))]
    /\ p_pc' = [p_pc EXCEPT ![r] = "save"]
    /\ UNCHANGED <<sharedFrame, sessionVars, p_step, p_response, p_ret>>

\* lines 202-206: the Tool message is appended.
SharedSaveToolResults(r) ==
    /\ p_pc[r] = "save"
    /\ session_guard = None
    /\ messages' = add_message(messages, new_tool_result(p_results[r]))
    /\ p_pc' = [p_pc EXCEPT ![r] = "loop"]
    /\ UNCHANGED <<sharedFrame, status, p_step, p_response, p_results, p_ret>>

\* lines 209-210 and 130-133: the log is cloned, the status set Completed
\* and Ok returned.
SharedReturn(r) ==
    /\ \/ p_pc[r] = "return"
       \/ p_pc[r] = "loop" /\ ~StepsLeft(p_step[r], max_steps)
    /\ session_guard = None
    /\ status' = "Completed"
    /\ p_ret' = [p_ret EXCEPT ![r] = "Ok"]
    /\ p_pc' = [p_pc EXCEPT ![r] = "done"]
    /\ UNCHANGED <<sharedFrame, messages, p_step, p_response, p_results>>

\* An agent on a fresh session with one tool registered.
SharedInit ==
    /\ InitCommon
    /\ max_steps = SharedSteps
    /\ registry = register(EmptyRegistry, Tool("t1", "ok"))

SharedNext ==
    \E r \in Runs :
        \/ SharedRun(r)
        \/ SharedLoopHead(r)
        \/ SharedCompleteOk(r)
        \/ SharedCompleteErr(r)
        \/ SharedAppendAssistant(r)
        \/ SharedExecuteAll(r)
        \/ SharedSaveToolResults(r)
        \/ SharedReturn(r)

SharedSpec == SharedInit /\ [][SharedNext]_vars

(***************************************************************************)
(* Properties.                                                             *)
(***************************************************************************)
Roles(log) == [i \in 1..Len(log) |-> log[i].role]
AssistantAt(log) == {i \in 1..Len(log) : log[i].role = "Assistant"}
ToolAt(log) == {i \in 1..Len(log) : log[i].role = "Tool"}
\* The ids of the ToolCall blocks of a content, in order.
CallIdsOf(c) == [i \in 1..Len(SelectCalls(c)) |-> SelectCalls(c)[i].id]
\* The tool_call_ids of a Tool message's content, in order.
ResultIdsOf(c) == [i \in 1..Len(c) |-> c[i].tool_call_id]
\* 1 User, then k times Assistant, Tool.
AlternatingRoles(k) ==
    [i \in 1..(1 + 2 * k) |->
        IF i = 1 THEN "User" ELSE IF i % 2 = 0 THEN "Assistant" ELSE "Tool"]
\* The batch run has returned Ok(messages) to its caller.
BatchReturnedOk == mode = "batch" /\ pc = "done" /\ ret.kind = "Ok"
\* No response of the model requested a tool.
NeverRequestedTool ==
    \A i \in AssistantAt(messages) : SelectCalls(messages[i].content) = <<>>
\* Every response of the model requested exactly one tool.
AlwaysRequestedOneTool ==
    \A i \in AssistantAt(messages) : Len(SelectCalls(messages[i].content)) = 1

\* C1 as stated: with a model that never requests a tool, a batch run on an
\* empty session makes exactly one model call and returns exactly 2
\* messages, User then Assistant.
C1_AsStated ==
    (BatchReturnedOk /\ NeverRequestedTool) =>
        /\ llm_calls = 1
        /\ Roles(ret.messages) = <<"User", "Assistant">>

\* C1 amended: the same, for max_steps >= 1 (with max_steps = 0 the model is
\* never called and the log returned holds the User message alone).
C1_OneCallTwoMessages ==
    (BatchReturnedOk /\ NeverRequestedTool /\ max_steps >= 1) =>
        /\ llm_calls = 1
        /\ Roles(ret.messages) = <<"User", "Assistant">>
        /\ ret.messages = messages

C1_Witness ==
    /\ BatchReturnedOk /\ NeverRequestedTool /\ max_steps >= 2
    /\ llm_calls = 1
    /\ Len(ret.messages) = 2
    /\ ret.messages[2].content = <<Text("hi")>>

\* C2: for max_steps = k and a model that requests one tool call in every
\* response, a batch run on an empty session makes exactly k model calls and
\* returns Ok with 1 + 2k messages (1 User, k Assistant, k Tool); run never
\* returns MaxStepsExceeded.
C2_SilentExhaustion ==
    /\ ret.kind \in {"Pending", "Ok", "LLMError"}
    /\ (mode = "batch" /\ pc = "done" /\ ~llm_failed /\ AlwaysRequestedOneTool) =>
         /\ ret.kind = "Ok"
         /\ llm_calls = max_steps
         /\ Roles(ret.messages) = AlternatingRoles(max_steps)

C2_Witness ==
    /\ BatchReturnedOk /\ AlwaysRequestedOneTool
    /\ max_steps = 2
    /\ llm_calls = 2
    /\ Len(ret.messages) = 5

\* C3: a batch run and a streaming run each call the model at most max_steps
\* times and then end, whatever the model answers; with max_steps = 0 no
\* model call is made and the batch run returns the log with only the new
\* User message appended.
C3_BoundedSteps ==
    /\ [](llm_calls <= max_steps)
    /\ []((mode = "batch" /\ pc = "done" /\ max_steps = 0) =>
            /\ llm_calls = 0
            /\ \E text \in UserInputs : ret = RetOk(<<new_user(text)>>))
    /\ <>(pc = "done")

C3_Witness ==
    /\ mode = "stream" /\ pc = "done"
    /\ max_steps = 2
    /\ llm_calls = max_steps
    /\ messages[Len(messages)].role = "Tool"

\* The call fails: its tool is unknown to the registry, or the tool returns
\* Err(InvalidArguments) or Err(ExecutionFailed).
CallFails(call) ==
    \/ get(registry, call.name) = NoTool
    \/ ToolExecute(get(registry, call.name), call.arguments).tag = "Err"

\* C4: a failing tool call never ends a batch or streaming run: its
\* error-flagged ToolResult is appended to the Session in that turn's Tool
\* message, and the model is called again when the step budget allows.
C4_ToolFailureAbsorbed ==
    /\ ret.kind \in {"Pending", "Ok"} \/ (llm_failed /\ ret = RetLLMError)
    /\ (pc = "done" /\ ~llm_failed /\ tool_calls # <<>>) =>
         /\ messages[Len(messages)] = new_tool_result(results)
         /\ step = max_steps
    /\ pc \in {"b_save_tools", "s_emit", "s_save_tools"} =>
         /\ Len(results) = Len(tool_calls)
         /\ \A j \in 1..Len(tool_calls) :
              CallFails(tool_calls[j]) =>
                 /\ results[j].is_error = SomeTrue
                 /\ results[j].tool_call_id = tool_calls[j].id
    /\ (pc \in {"b_loop", "s_loop"} /\ step > 0) =>
         /\ messages[Len(messages)] = new_tool_result(results)
         /\ StepsLeft(step, max_steps) => ENABLED (GetToolDefinitions \/ StreamLoopHead)
    /\ (pc = "done" /\ messages # <<>> /\ messages[Len(messages)].role = "Tool") =>
         \/ step = max_steps
         \/ llm_failed /\ llm_calls = Cardinality(ToolAt(messages)) + 1

C4_Witness ==
    /\ mode = "stream"
    /\ llm_calls = 2
    /\ pc = "s_next"
    /\ \E i \in ToolAt(messages) :
         \E j \in 1..Len(messages[i].content) :
            /\ messages[i].content[j].is_error = SomeTrue
            /\ messages[i].content[j].result = "Invalid arguments: bad args"

\* C5: if the model adapter's complete call fails at any step of a batch
\* run, run returns an LLMError to the caller and no further model call or
\* tool dispatch happens in that run.
C5_LLMErrorEndsRun ==
    (mode = "batch" /\ llm_failed) =>
        /\ ret = RetLLMError
        /\ pc = "done"
        /\ ~ENABLED Next

C5_Witness ==
    /\ mode = "batch" /\ llm_failed
    /\ llm_calls = 2
    /\ Cardinality(ToolAt(messages)) = 1

C7_ResultConversion ==
    mode = "exec" =>
        /\ pc \in {"x_lookup", "x_invoke", "x_done"}
        /\ \A k \in 1..Len(invoked) :
             LET i == invoked[k][1]
                 out == ToolExecute(invoked[k][2], tool_calls[i].arguments)
             IN  /\ i <= Len(results)
                 /\ results[i].tool_call_id = tool_calls[i].id
                 /\ out.tag = "Err" =>
                      /\ results[i].is_error = SomeTrue
                      /\ results[i].result = out.msg
                 /\ out.tag = "Ok" =>
                      /\ results[i].result = out.output
                      /\ (results[i].is_error = SomeTrue) <=> (out.error # None)
                      /\ results[i].is_error \in {SomeTrue, None}

C7_Witness ==
    /\ mode = "exec" /\ pc = "x_done"
    /\ Len(invoked) = 2
    /\ invoked[1][2].impl = "flagged"
    /\ invoked[2][2].impl = "invalid"
    /\ results[1].is_error = SomeTrue /\ results[1].result = ""
    /\ results[2].result = "Invalid arguments: bad args"

\* C8: execute on a call whose tool name is not in the Registry at lookup
\* time returns a ToolResult that is error-flagged, carries the call's id and
\* the text "Tool not found: {name}", and invokes no tool.
C8_ToolNotFound ==
    [][(/\ pc = "x_lookup"
        /\ registry' = registry
        /\ IsToolCall(tool_calls[ea_i])
        /\ get(registry, tool_calls[ea_i].name) = NoTool)
       => (/\ results' = Append(results,
                 ToolResultBlock(tool_calls[ea_i].id,
                                 "Tool not found: " \o tool_calls[ea_i].name, SomeTrue))
           /\ invoked' = invoked
           /\ tool' = NoTool
           /\ pc' # "x_invoke")]_vars

C8_Witness ==
    /\ mode = "exec" /\ pc = "x_done"
    /\ Len(results) = 2
    /\ IsToolCall(tool_calls[1]) /\ IsToolCall(tool_calls[2])
    /\ tool_calls[1].name = "t1" /\ tool_calls[2].name = "t1"
    /\ results[1] = ToolResultBlock(tool_calls[1].id, "Tool not found: t1", SomeTrue)
    /\ invoked = <<<<2, Tool("t1", "ok")>>>>

\* C9: after every step of a single batch run, each Tool-role message in the
\* Session log directly follows an Assistant message, and its ToolResult
\* blocks carry exactly the ids of that Assistant message's ToolCall blocks,
\* one result per call, in the same order.
C9_ToolFollowsAssistant ==
    mode = "batch" =>
        \A i \in ToolAt(messages) :
            /\ i > 1
            /\ messages[i - 1].role = "Assistant"
            /\ \A j \in 1..Len(messages[i].content) :
                 messages[i].content[j].type = "tool_result"
            /\ ResultIdsOf(messages[i].content) = CallIdsOf(messages[i - 1].content)

C9_Witness ==
    /\ mode = "batch"
    /\ \E i \in ToolAt(messages) :
         /\ ResultIdsOf(messages[i].content) = <<"c2", "c1">>
         /\ Len(messages[i - 1].content) = 3
         /\ messages[i - 1].content[2] = Text("hi")

\* C10: after a streaming run in which tools were executed, each Tool-role
\* message in the Session log is immediately preceded by an Assistant
\* message that contains a ToolCall block for every tool_call_id of that
\* Tool message.
C10_AsStated ==
    (mode = "stream" /\ pc = "done") =>
        \A i \in ToolAt(messages) :
            /\ i > 1
            /\ messages[i - 1].role = "Assistant"
            /\ \A j \in 1..Len(messages[i].content) :
                 \E b \in 1..Len(messages[i - 1].content) :
                    /\ IsToolCall(messages[i - 1].content[b])
                    /\ messages[i - 1].content[b].id = messages[i].content[j].tool_call_id

\* The events that end a turn for the consumer.
IsTerminal(e) == e.ev \in {"MessageEnd", "Error"}
\* The positions of the events of the turn that starts at position i.
TurnOf(i) ==
    {j \in (i + 1)..Len(events) :
        \A k \in (i + 1)..j : events[k] # EvMessageStart}
TurnStarts == {i \in 1..Len(events) : events[i] = EvMessageStart}

\* C11 as stated: for every turn of a streaming run the events of the turn
\* hold exactly one terminal marker, a MessageEnd or an Error, whatever
\* finite sequence the model adapter yields.
C11_AsStated ==
    (mode = "stream" /\ pc = "done") =>
        \A i \in TurnStarts :
            Cardinality({j \in TurnOf(i) : IsTerminal(events[j])}) = 1

\* C12: in a streaming run an Error event is the last event of the sequence:
\* once it is emitted no further event is emitted, no model call is made and
\* no tool is executed.
C12_ErrorIsLast ==
    mode = "stream" =>
        /\ \A i \in 1..(Len(events) - 1) : events[i].ev # "Error"
        /\ llm_failed <=> (events # <<>> /\ events[Len(events)].ev = "Error")
        /\ llm_failed => (pc = "done" /\ ~ENABLED Next)

C12_Witness ==
    /\ mode = "stream" /\ pc = "done"
    /\ Len(events) >= 4
    /\ events[Len(events)] = EvError("item")
    /\ llm_calls = 2
    /\ ToolAt(messages) # {}

\* C13: when a streaming turn is aborted by a model-adapter error, at stream
\* creation or mid-stream, no Assistant and no Tool message is appended for
\* that turn: the log is the one the turn started with.
C13_AbortLeavesLog ==
    (mode = "stream" /\ llm_failed) =>
        /\ messages = input.messages
        /\ Cardinality(AssistantAt(messages)) = llm_calls - 1
        /\ Cardinality(ToolAt(messages)) <= llm_calls - 1

C13_Witness ==
    /\ mode = "stream" /\ llm_failed
    /\ events[Len(events)] = EvError("item")
    /\ content = <<Text("hi"), ToolCall("c1", "t1", ArgsQ)>>
    /\ messages = <<>>

\* C15 as stated: the Session status of a batch run goes Idle -> Running ->
\* Completed when run returns a message list, or -> Error when run fails;
\* once run has returned the status is Completed or Error, not Running.
C15_AsStated ==
    /\ mode = "batch" =>
         /\ status \in {"Running", "Completed", "Error"}
         /\ status = "Completed" => (pc = "done" /\ ret.kind = "Ok")
    /\ (mode = "batch" /\ pc = "done") =>
         /\ ret.kind = "Ok" => status = "Completed"
         /\ ret.kind # "Ok" => status = "Error"

\* C14: if the consumer stops pulling events of a streaming run at an event
\* emitted while a turn's model stream is still being consumed, the Assistant
\* message of that turn is never appended to the Session.
C14_StopLeavesTurnUnsaved ==
    pc = "dropped:s_next" =>
        /\ Cardinality(AssistantAt(messages)) = llm_calls - 1
        /\ messages = input.messages
        /\ ~ENABLED DropNext

C14_Witness ==
    /\ pc = "dropped:s_next"
    /\ events[Len(events)] = EvMessageEnd("Stop")
    /\ content = <<Text("hi")>>
    /\ llm_calls = 2

\* The definition a registered tool surfaces: its own name, description and
\* schema; for an MCP-adapted tool, the remote definition it was made from.
SurfacedBy(t) ==
    IF t.impl = "mcp" THEN t.definition
    ELSE [name |-> t.name, description |-> "impl:" \o t.impl,
          input_schema |-> "schema:" \o t.impl]
\* The tool list holds exactly one definition per registered name of reg,
\* the one its tool surfaces, and nothing else.
ExactlyTheDefinitionsOf(reg, tools) ==
    /\ \A n \in ToolNames :
         reg[n] # NoTool =>
            /\ reg[n].name = n
            /\ CopiesIn(SurfacedBy(reg[n]), tools) = 1
    /\ \A d \in BagToSet(tools) :
         \E n \in ToolNames : reg[n] # NoTool /\ d = SurfacedBy(reg[n])

\* C16: in every turn, batch or streaming, the tool list given to the model
\* consists of exactly the definitions (name, description and schema
\* unchanged) of the tools registered at the moment of that turn's snapshot,
\* one per registered name, whether the tool is local or MCP-adapted.
C16_ToolListIsSnapshot ==
    [][/\ (pc \in {"b_loop", "s_defs"} /\ pc' # pc /\ pc' # "b_finish" /\ pc' # "done") =>
            ExactlyTheDefinitionsOf(registry, input'.tools)
       /\ pc \notin {"b_loop", "s_defs"} => input'.tools = input.tools
       /\ llm_calls' # llm_calls =>
            /\ pc \in {"b_complete", "s_open"}
            /\ input' = input
            /\ input.messages = messages]_vars

C16_Witness ==
    /\ pc \in {"b_append", "s_next"}
    /\ llm_calls = 2
    /\ get(registry, "t2") = NoTool
    /\ BagToSet(input.tools) =
          {ToolDefinition("t1", "impl:ok", "schema:ok"),
           ToolDefinition("t2", "remote t2", "remote schema")}
    /\ BagCardinality(input.tools) = 2

\* C17 as stated: within one MCP session no two requests that are sent carry
\* the same id, the initialize request of connect included, and the ids of
\* successive tools/list and tools/call requests are strictly increasing.
C17_AsStated ==
    \A i \in 1..Len(sent) : \A j \in (i + 1)..Len(sent) :
        /\ sent[i].id # sent[j].id
        /\ (sent[i].method # "initialize" /\ sent[j].method # "initialize") =>
              sent[i].id < sent[j].id

\* C18 as stated: for each of the three transports a successful connect
\* sends exactly one initialize request and consumes exactly one response
\* before the session is Connected, and no listTools or callTool succeeds on
\* a session that has not completed connect.
C18_AsStated ==
    /\ (m_pc = "idle" /\ m_ret.op = "connect" /\ m_ret.result = "Ok") =>
          /\ Cardinality({i \in 1..Len(sent) : sent[i].method = "initialize"}) = 1
          /\ consumed = 1
    /\ (m_pc = "idle" /\ m_ret.op \in {"list_tools", "call_tool"} /\ m_ret.result = "Ok") =>
          connected

\* C19 as stated: on the process transport, once the child process is dead
\* and its output is at end-of-file, a listTools or callTool returns to its
\* caller (with an error); it does not block or loop forever.
C19_AsStated ==
    (m_pc \in {"list_read", "call_read"} /\ child = "exited" /\ ~out_open /\ out_left = 0)
        ~> (m_pc = "idle" /\ m_ret.result # "Ok")

\* C20 as stated: disconnect on a connected process-transport session
\* terminates the child and returns, also for a child that exits only when
\* it is killed or when its input pipe is closed; afterwards the session
\* holds no process, pipe or HTTP client handle.
C20_AsStated ==
    (m_pc = "wait" /\ connected /\ child_kind = "serves")
        ~> (/\ m_pc = "idle"
            /\ m_ret.op = "disconnect" /\ m_ret.result = "Ok"
            /\ child = "exited"
            /\ process = None /\ stdin = None /\ stdout_reader = None
            /\ http_client = None)

\* Whether a line is discarded by the read path: empty, or no JSON.
IsNoise(t) == ReadClosure(t).tag = "Err" \/ ~ReadClosure(t).some

\* C21: when the output from where a read begins is some lines that are
\* empty or no JSON followed by a valid JSON line, a read that has returned
\* has returned the value of that line, and the reader stands right after
\* that line: the lines before it are gone, nothing after it is consumed.
C21_ReadReturnsFirstJson ==
    \A j \in 1..Len(out_lines) :
        (/\ read_pc = "idle"
         /\ read_ret # ReadPending
         /\ read_from < j
         /\ \A i \in (read_from + 1)..(j - 1) : IsNoise(out_lines[i])
         /\ ~IsNoise(out_lines[j]))
            => (read_ret = [tag |-> "Ok", value |-> out_lines[j].of] /\ out_pos = j)

\* Two lines of noise, a JSON line in its spaced spelling, and a line after
\* it that is still to be read; the read has returned.
C21_Witness ==
    /\ Len(out_lines) = 4
    /\ IsNoise(out_lines[1]) /\ IsNoise(out_lines[2])
    /\ out_lines[3] = JsonText(ResponseObject(JAbsent, JString("done")), "spaced")
    /\ read_from = 0
    /\ read_pc = "idle"
    /\ read_ret = [tag |-> "Ok", value |-> ResponseObject(JAbsent, JString("done"))]
    /\ out_pos = 3

\* A listTools or callTool has returned after the server answered with a
\* JSON document; Answered is that document.
GotAnswer ==
    /\ m_pc = "idle"
    /\ m_ret.op \in {"list_tools", "call_tool"}
    /\ m_ret.answer.status # "none"
    /\ from_str(m_ret.answer.body).tag = "Ok"
Answered == from_str(m_ret.answer.body).value

\* C22 as stated: on every transport a response object with a top-level
\* error makes listTools and callTool return ExecutionError, also when it
\* has a result too, and one with neither result nor error makes them return
\* ProtocolError.
C22_AsStated ==
    GotAnswer =>
        /\ Get(Answered, "error").kind # "absent" => m_ret.result = "ExecutionError"
        /\ (Get(Answered, "error").kind = "absent" /\ Get(Answered, "result").kind = "absent")
              => m_ret.result = "ProtocolError"

\* C22, amended: the same for a response object the client has received as
\* a line of the child's output or as the body of an HTTP reply whose status
\* is a success; in neither case is Ok returned.
C22_ResponseErrors ==
    (GotAnswer /\ m_ret.answer.status \in {"line", "success"}) =>
        /\ Get(Answered, "error").kind # "absent" => m_ret.result = "ExecutionError"
        /\ (Get(Answered, "error").kind = "absent" /\ Get(Answered, "result").kind = "absent")
              => m_ret.result = "ProtocolError"

\* Over HTTP, a response with both an error and a result has been answered
\* with ExecutionError.
C22_Witness ==
    /\ GotAnswer
    /\ transport = "http"
    /\ m_ret.answer.status = "success"
    /\ Get(Answered, "error").kind = "object"
    /\ Get(Answered, "result").kind = "object"
    /\ m_ret.result = "ExecutionError"

\* What listTools or callTool makes of a response object on a transport.
OutcomeOn(t, op, rsp) ==
    IF t = "stdio"
    THEN IF op = "list_tools" THEN ListToolsStdioResult(rsp) ELSE CallToolStdioResult(rsp)
    ELSE IF op = "list_tools"
         THEN ListToolsHttpResult(HttpReply("success", to_string(rsp)))
         ELSE CallToolHttpResult(HttpReply("success", to_string(rsp)))

\* C23 as stated: whatever response object a listTools or callTool was
\* answered with, each of the three transports makes the same of it: the
\* same tool infos, the same result string, or an error of the same kind.
C23_AsStated ==
    (GotAnswer /\ m_ret.answer.status \in {"line", "success"}) =>
        \A t \in Transports :
            LET o == OutcomeOn(t, m_ret.op, Answered) IN
            /\ o.result = m_ret.result
            /\ o.result = "Ok" => o.detail = m_ret.detail

\* The calls of call_tool that a task has made.
CallsOf(t) == {i \in 1..Len(a_calls) : a_calls[i].run = t}

\* C24: an execute(args) of an adapter that has returned has made exactly
\* one call of call_tool, with the adapter's name and the args; an error of
\* call_tool has become ToolError::ExecutionFailed with the error's message,
\* an Ok(output) a ToolResult with that output and no error flag.
C24_AdapterDelegates ==
    \A t \in Runs :
        a_pc[t] = "done" =>
            /\ Cardinality(CallsOf(t)) = 1
            /\ \A i \in CallsOf(t) :
                  a_calls[i].name = a_call[t].name /\ a_calls[i].args = a_call[t].args
            /\ IF a_out[t].result = "Ok"
               THEN /\ a_ret[t].tag = "Ok"
                    /\ a_ret[t].output = a_out[t].detail.text
                    /\ a_ret[t].error = None
               ELSE /\ a_ret[t].tag = "Err"
                    /\ a_ret[t].kind = "ExecutionFailed"
                    /\ a_ret[t].reason.message = a_out[t].detail
                    /\ a_ret[t].reason = MCPErrorDisplay(a_out[t])

\* One task's execute has returned a ToolResult, the other's an
\* ExecutionFailed for an ExecutionError of the server.
C24_Witness ==
    /\ a_pc["r1"] = "done" /\ a_out["r1"].result = "Ok" /\ a_ret["r1"].tag = "Ok"
    /\ a_pc["r2"] = "done" /\ a_out["r2"].result = "ExecutionError"
    /\ a_ret["r2"].tag = "Err"

\* C30: of the tasks that execute adapters of one session, at most one has
\* a request on its way and its response not yet read.
C30_OneInFlight ==
    Cardinality({t \in Runs : a_pc[t] = "sent"}) <= 1

\* One task waits for its response on the process transport while the
\* other has called execute and waits for the guard; an earlier request of
\* the session has been answered.
C30_Witness ==
    /\ transport = "stdio"
    /\ a_pc["r2"] = "sent"
    /\ a_pc["r1"] = "done"
    /\ Len(sent) = 3

\* The last operation on the registry.
LastOp == reg_ops[Len(reg_ops)]

\* C25: after a register under a name that was bound already, get(name)
\* returns the handle just registered, the number of registered tools is
\* what it was, and every other name is bound as it was.
C25_RegisterReplaces ==
    (reg_ops # <<>> /\ LastOp.op = "register" /\ get(LastOp.before, LastOp.name) # NoTool) =>
        /\ get(registry, LastOp.name) = LastOp.tool
        /\ len(registry) = len(LastOp.before)
        /\ \A n \in ToolNames \ {LastOp.name} : get(registry, n) = get(LastOp.before, n)

\* A tool has been registered under the name of a different tool, with
\* another name bound as well.
C25_Witness ==
    /\ reg_ops # <<>>
    /\ LastOp.op = "register"
    /\ get(LastOp.before, "t1") = Tool("t1", "ok")
    /\ LastOp.tool = Tool("t1", "failing")
    /\ get(LastOp.before, "t2") # NoTool
    /\ get(registry, "t1") = Tool("t1", "failing")

\* The definitions that carry a name.
DefinitionsNamed(defs, n) == {d \in BagToSet(defs) : d.name = n}

\* C26: after any sequence of register and unregister, to_tool_definitions
\* has exactly one definition for each name that is registered, none for
\* any other name, and as many definitions as len() says.
C26_DefinitionsMatchNames ==
    LET defs == to_tool_definitions(registry) IN
    /\ \A n \in ToolNames :
          IF n \in reg_names
          THEN /\ Cardinality(DefinitionsNamed(defs, n)) = 1
               /\ \A d \in DefinitionsNamed(defs, n) : CopiesIn(d, defs) = 1
          ELSE DefinitionsNamed(defs, n) = {}
    /\ BagCardinality(defs) = len(registry)

\* A name has been unregistered while another stays registered.
C26_Witness ==
    /\ reg_ops # <<>>
    /\ LastOp.op = "unregister"
    /\ LastOp.ret # NoTool
    /\ reg_names = {"t2"}
    /\ BagCardinality(to_tool_definitions(registry)) = 1

\* C27: of two get(name) calls that follow each other, the second returns
\* what the first returned, and a get leaves the registry as it was.
C27_GetIdempotent ==
    /\ (reg_ops # <<>> /\ LastOp.op = "get") => LastOp.after = LastOp.before
    /\ (Len(reg_ops) = 2 /\ reg_ops[1].op = "get" /\ reg_ops[2].op = "get"
            /\ reg_ops[1].name = reg_ops[2].name)
          => reg_ops[2].ret = reg_ops[1].ret

\* Two gets of a registered name have followed each other.
C27_Witness ==
    /\ Len(reg_ops) = 2
    /\ reg_ops[1].op = "get" /\ reg_ops[2].op = "get"
    /\ reg_ops[1].name = "t1" /\ reg_ops[2].name = "t1"
    /\ reg_ops[2].ret = Tool("t1", "ok")

\* C28: a check of a context that no rule matches returns Deny; with no
\* rules, every check returns Deny.
C28_DefaultDeny ==
    (perm_result # None) =>
        /\ (\A i \in 1..Len(rules) : ~matches(rules[i], perm_ctx)) => perm_result = "Deny"
        /\ rules = <<>> => perm_result = "Deny"

\* A check has run past two rules, neither of which matches: one by its
\* tool pattern, one by its argument patterns.
C28_Witness ==
    /\ perm_result = "Deny"
    /\ Len(rules) = 2
    /\ rules[1].action = "Allow" /\ rules[2].action = "Allow"
    /\ ~tool_matches(rules[1].tool, perm_ctx.tool)
    /\ tool_matches(rules[2].tool, perm_ctx.tool)
    /\ rules[2].patterns.is_some /\ ~args_match(rules[2].patterns.v, perm_ctx.args)

\* The agent's task is inside llm_client.complete, llm_client.stream,
\* llm_stream.next or tool.execute.
CallInProgress == pc \in {"b_complete", "s_open", "s_next", "x_invoke"}

\* C29: while a model call or a tool's execute is in progress, in batch and
\* in streaming mode, the agent holds neither the Registry guard nor the
\* Session guard, so that a register, unregister, get or Session read of
\* another task can take the guard.
C29_NoGuardAcrossCalls ==
    CallInProgress => registry_guard = None /\ session_guard = None

\* A tool of a batch run is executing, and another task has unregistered it
\* since it was looked up.
C29_Witness ==
    /\ mode = "batch"
    /\ pc = "x_invoke"
    /\ tool.name = "t2"
    /\ get(registry, "t2") = NoTool
    /\ registry_guard = None
    /\ session_guard = None

\* C31 as stated: the guard of the MCP session is not held while a request
\* of an adapter is on its way and its response not yet read, so another
\* task can take the guard.
C31_AsStated ==
    \A t \in Runs : a_pc[t] = "sent" => client_lock = None

\* C32 as stated: with two batch runs on one Session, every Tool message
\* of the log directly follows the Assistant message whose ToolCall ids it
\* answers.
C32_AsStated ==
    \A i \in ToolAt(messages) :
        /\ i > 1
        /\ messages[i - 1].role = "Assistant"
        /\ ResultIdsOf(messages[i].content) = CallIdsOf(messages[i - 1].content)

\* C33: a change of the registry during a turn neither aborts nor blocks
\* the turn.  A call whose tool is not registered when it is dispatched,
\* also when its definition was in the turn's tool list, gets an
\* error-flagged "Tool not found" result and the turn goes on; a tool that
\* is executing returns the result of the handle that was looked up, also
\* when its name has been unregistered or bound to another handle since.
C33_MutationDoesNotAbort ==
    [][LET call == tool_calls[ea_i] IN
        /\ (pc = "x_lookup" /\ registry' = registry /\ IsToolCall(call)
                /\ get(registry, call.name) = NoTool)
              => /\ results' = Append(results,
                                     ToolResultBlock(call.id, "Tool not found: " \o call.name,
                                                     SomeTrue))
                 /\ pc' \in {"x_lookup", AfterExecuteAll(mode)}
                 /\ ret' = ret
        /\ (pc = "x_lookup" /\ registry' = registry /\ IsToolCall(call)
                /\ get(registry, call.name) # NoTool)
              => /\ pc' = "x_invoke"
                 /\ tool' = get(registry, call.name)
        /\ (pc = "x_invoke" /\ registry' = registry)
              => /\ results' = Append(results,
                                     ConvertResult(call.id, ToolExecute(tool, call.arguments)))
                 /\ pc' \in {"x_lookup", AfterExecuteAll(mode)}
                 /\ ret' = ret]_vars

\* In a batch turn whose tool list held the definition of t2, the call of
\* t2 got "Tool not found", and the call of t1 is executing with the
\* handle that was looked up while t1 is bound to another handle.
C33_Witness ==
    /\ mode = "batch"
    /\ pc = "x_invoke"
    /\ ea_i = 2
    /\ \E d \in BagToSet(input.tools) : d.name = "t2"
    /\ results = <<NotFoundResult(tool_calls[1].id, "t2")>>
    /\ tool = Tool("t1", "ok")
    /\ get(registry, "t1") = Tool("t1", "flagged")

\* C34 as stated: a ToolCallDelta(id, fragment) for an id that a ToolCall
\* block of content carries sets the arguments of the blocks with that id,
\* and leaves every other block as it was.
C34_AsStated ==
    [][(/\ Len(recv') = Len(recv) + 1
        /\ recv'[Len(recv')].type = "ToolCallDelta"
        /\ \E i \in 1..Len(content) :
              IsToolCall(content[i]) /\ content[i].id = recv'[Len(recv')].id) =>
        LET e == recv'[Len(recv')] IN
        /\ Len(content') = Len(content)
        /\ \A i \in 1..Len(content) :
              IF IsToolCall(content[i]) /\ content[i].id = e.id
              THEN content'[i] = [content[i] EXCEPT
                                    !.arguments = from_str_or_empty(e.arguments)]
              ELSE content'[i] = content[i]]_vars

\* C35 as stated: in streaming mode every ToolResult event the caller gets
\* comes after a ToolCall event for the same call.
C35_AsStated ==
    mode = "stream" =>
        \A i \in 1..Len(events) :
            events[i].ev = "ToolResult" =>
                \E j \in 1..(i - 1) : events[j].ev = "ToolCall"

\* The lines of the child's output that are JSON, in order.
JsonLines == SelectSeq(out_lines, LAMBDA t : ~IsNoise(t))

\* C36: on the process transport with one request at a time, the k-th
\* request that has returned has returned the value of the k-th JSON line
\* of the child's output, whatever that line says and whatever lines that
\* are no JSON lie before it, and the reader stands right after that line.
C36_KthRequestKthLine ==
    /\ \A k \in 1..Len(requests) :
          requests[k].answer # ReadPending =>
              /\ k <= Len(JsonLines)
              /\ requests[k].answer = [tag |-> "Ok", value |-> JsonLines[k].of]
    /\ (read_pc = "idle" /\ requests # <<>>) =>
          /\ ~IsNoise(out_lines[out_pos])
          /\ Len(SelectSeq(SubSeq(out_lines, 1, out_pos), LAMBDA t : ~IsNoise(t)))
                = Len(requests)

\* initialize and a tools/call have been answered by the first and the
\* second JSON line, with a line that is no JSON before each.
C36_Witness ==
    /\ Len(out_lines) = 4
    /\ IsNoise(out_lines[1]) /\ ~IsNoise(out_lines[2])
    /\ IsNoise(out_lines[3]) /\ ~IsNoise(out_lines[4])
    /\ out_lines[2].of # out_lines[4].of
    /\ Len(requests) = 2
    /\ requests[2].method = "tools/call"
    /\ requests[2].answer = [tag |-> "Ok", value |-> out_lines[4].of]

\* A tool call by its id and name.
CallKey(b) == <<b.id, b.name>>
CallKeys(blocks) == [i \in 1..Len(blocks) |-> CallKey(blocks[i])]
\* The tool calls that the items received so far have started and not
\* ended (open), and those they have ended, in the order of the ToolCallEnd
\* items (ended).  A ToolCallEnd ends the earliest open call of its id.
RECURSIVE StartedAndEnded(_)
StartedAndEnded(items) ==
    IF items = <<>> THEN [open |-> <<>>, ended |-> <<>>]
    ELSE LET before == StartedAndEnded(SubSeq(items, 1, Len(items) - 1))
             e == items[Len(items)]
             hits == {i \in 1..Len(before.open) : before.open[i][1] = e.id}
             first == CHOOSE i \in hits : \A j \in hits : i <= j
         IN  IF e.type = "ToolCallStart"
             THEN [open |-> Append(before.open, <<e.id, e.name>>), ended |-> before.ended]
             ELSE IF e.type = "ToolCallEnd" /\ hits # {}
             THEN [open |-> RemoveAt(before.open, first),
                   ended |-> Append(before.ended, before.open[first])]
             ELSE before

\* C37: once the Assistant message of a streaming turn is saved, the tool
\* calls handed to execute_all are the calls a ToolCallEnd was received
\* for, in the order of the ToolCallEnd items; the Assistant message holds
\* as ToolCall blocks the calls that were started and not ended; and only
\* calls of the first kind are executed, in that order.
C37_EndedCallsDispatched ==
    (mode = "stream" /\ messages # <<>>) =>
        /\ CallKeys(tool_calls) = StartedAndEnded(recv).ended
        /\ CallKeys(SelectCalls(messages[1].content)) = StartedAndEnded(recv).open
        /\ Len(results) <= Len(tool_calls)
        /\ \A i \in 1..Len(results) : results[i].tool_call_id = tool_calls[i].id
        /\ \A i \in 1..Len(invoked) : invoked[i][2].name = tool_calls[invoked[i][1]].name
        /\ pc = "done" => Len(results) = Len(tool_calls)

\* Two calls were started and ended in the other order; both have been
\* executed in the order of their ToolCallEnd items.
C37_Witness ==
    /\ mode = "stream"
    /\ pc = "done"
    /\ recv = <<[type |-> "ToolCallStart", id |-> "c1", name |-> "t1"],
                [type |-> "ToolCallStart", id |-> "c2", name |-> "t1"],
                [type |-> "ToolCallEnd", id |-> "c2"],
                [type |-> "ToolCallEnd", id |-> "c1"]>>
    /\ Len(messages) = 2
    /\ ResultIdsOf(messages[2].content) = <<"c2", "c1">>
    /\ Len(invoked) = 2

\* C38: when a batch run has returned LLMError from its step k, the log of
\* the Session is what it was before the run, then the User message of the
\* run, then an Assistant and a Tool message for each of the steps 1..k-1,
\* and nothing for step k.
C38_LogKeptOnLLMError ==
    (mode = "batch" /\ pc = "done" /\ ret.kind = "LLMError") =>
        LET n == Len(prior) IN
        /\ Len(messages) = n + 1 + 2 * (step - 1)
        /\ SubSeq(messages, 1, n) = prior
        /\ \E text \in UserInputs : messages[n + 1] = new_user(text)
        /\ \A j \in 1..(step - 1) :
              /\ messages[n + 2 * j].role = "Assistant"
              /\ messages[n + 2 * j + 1].role = "Tool"
              /\ ResultIdsOf(messages[n + 2 * j + 1].content)
                    = CallIdsOf(messages[n + 2 * j].content)

\* A run on a Session with an earlier exchange has failed at its second
\* step.
C38_Witness ==
    /\ mode = "batch" /\ pc = "done" /\ ret.kind = "LLMError"
    /\ prior # <<>>
    /\ step = 2
    /\ Len(messages) = 5

\* C39: when connect has failed on a client that was not connected, the
\* client holds no process, no pipe handle and no HTTP client, and the
\* list_tools or call_tool that follows returns ConnectionError and sends
\* nothing.
C39_AsStated ==
    /\ (m_pc = "idle" /\ m_ret.op = "connect" /\ m_ret.result # "Ok" /\ ~connected) =>
          /\ process = None
          /\ stdin = None
          /\ stdout_reader = None
          /\ http_client = None

\* C40: no step of a streaming run changes the status of the Session, and
\* a step that changes the log appends one message to it: the Assistant
\* message of a turn, at the start of the run or after the Tool message of
\* the turn before, or the Tool message of a turn, after the Assistant
\* message of that turn.  No User message is appended.
C40_StreamOnlyAppendsTurns ==
    [][/\ status' = status
       /\ messages' # messages =>
             LET n == Len(messages)
                 m == messages'[n + 1]
             IN  /\ Len(messages') = n + 1
                 /\ SubSeq(messages', 1, n) = messages
                 /\ \/ /\ m.role = "Assistant"
                       /\ n = Len(prior) \/ messages[n].role = "Tool"
                    \/ /\ m.role = "Tool"
                       /\ n > Len(prior)
                       /\ messages[n].role = "Assistant"]_vars

\* A streaming run of two turns on a Session that an earlier run has left
\* Completed has ended: the log has grown by an Assistant, a Tool and an
\* Assistant message.
C40_Witness ==
    /\ mode = "stream" /\ pc = "done"
    /\ prior # <<>>
    /\ status = "Completed"
    /\ Len(messages) = Len(prior) + 3
    /\ messages[Len(prior) + 1].role = "Assistant"
    /\ messages[Len(prior) + 2].role = "Tool"
    /\ messages[Len(prior) + 3].role = "Assistant"
====
